---- MODULE Spec2Model ----
(***************************************************************************)
(* PhotoSync transfer/session engine.                                      *)
(*                                                                         *)
(*   SpecWorker   : PhotoWorker (sequential job queue) driven by the       *)
(*                  Socket.IO batch handlers, with client disconnects.     *)
(*   SpecFifo     : the same with single-photo requests, for ordering.     *)
(*   FairSpecLive : the same under the event loop's scheduling.            *)
(*   SpecAuth     : Socket.IO authentication middleware, rate limiting     *)
(*                  and the read-only token manager with its TTL cache.    *)
(*   SpecRevoke   : token revocation and deletion in the main process,     *)
(*                  the token-file watcher and the revocation sweep;       *)
(*                  FairSpecRevoke adds the delivery of callbacks.         *)
(*   SpecRate     : the rate limiter over a whole window of attempts.      *)
(*   SpecScan     : rescans of the photo directories (timer and manual)    *)
(*                  while sessions ask for manifests.                      *)
(*   SpecManifest : manifests on the streaming and the P2P transport.      *)
(*   SpecValidate : batch requests at the limits of their validation.      *)
(*   SpecOriginals: requests for originals by lists of present and absent  *)
(*                  ids.                                                   *)
(*   SpecPeer     : WebRTCManager with two P2P links, their heartbeats     *)
(*                  and closes.                                            *)
(*   SpecTransfer : photo transfers that follow each other on one link.    *)
(*   SpecCache    : the rendition cache under compressImage calls, the     *)
(*                  manual and the periodic rescan.                        *)
(*   SpecSignal   : a clientId that joins again, the heartbeats of its     *)
(*                  links and of the signaling socket, and destroy().      *)
(*   SpecFolders  : the folder tree of small catalogs.                     *)
(***************************************************************************)
EXTENDS Integers, Sequences, FiniteSets, TLC

VARIABLES
    queue,        \* PhotoWorker.queue : sequence of job records
    busy,         \* PhotoWorker.busy
    running,      \* jobs shifted off the queue whose processing has not settled
    jobs,         \* every job ever passed to queueJob, indexed by job id (history)
    startCnt,     \* number of job starts so far (history)
    settleCnt,    \* number of promise settlements so far (history)
    batches,      \* invocations of the batch handlers (one record per request)
    sockets,      \* io.sockets.sockets plus what each client has been sent
    now,          \* Date.now(), in seconds
    tokenStore,   \* DeviceTokenManager.store 'tokens' (main process)
    jsonFile,     \* contents of device-tokens.json, or Torn while being rewritten
    fileEvents,   \* fs.watch 'change' events raised and not yet delivered
    cache,        \* DeviceTokenManagerServer.cache
    cacheTimestamp, \* DeviceTokenManagerServer.cacheTimestamp
    authAttempts, \* SocketIOServer.authAttempts : ip -> {count, resetAt}
    sweepTodo,    \* sockets checkAuthenticatedConnections has still to visit
    activeUntil,  \* per token: when the store stopped holding it active (history)
    passLog,      \* per address: how many attempts passed the rate limit, by time (history)
    ticks,        \* number of clock advances so far (history)
    database,     \* the photosDatabase array that PhotoDatabase.database refers to
    previousPhotoCount, \* server.js previousPhotoCount
    scans,        \* invocations of scanPhotos in flight, by what triggered them
    lastEndCount, \* catalog size when a scan last ended (history)
    rescans,      \* number of scans started so far (history)
    peerInbox,    \* the message the P2P data channel delivered last
    peers,        \* WebRTCManager.peers and peerHeartbeats, with each link's state
    wire,         \* per client: what peer.send has put on the data channel (history)
    peerTrace,    \* what the manager did to its links and which events it emitted (history)
    transfers,    \* invocations of WebRTCManager.sendPhoto
    compressionCache, \* server.js compressionCache : cache key -> buffer
    cacheFiles,   \* files of CACHE_DIR : cache key -> contents
    compressions, \* invocations of server.js compressImage
    rescanCall,   \* the POST /api/rescan handler, up to its answer
    superseded,   \* per client: the links it had before the one that peers describes
    signaling,    \* the signaling socket and WebRTCManager.heartbeatInterval
    folderPhotos, \* the catalog that getFolderStructure is given: where each photo lies
    folderStructure \* what getFolderStructure returned last

workerVars == <<queue, busy, running, jobs, startCnt, settleCnt, batches>>
authVars == <<now, tokenStore, jsonFile, fileEvents, cache, cacheTimestamp,
              authAttempts, sweepTodo, activeUntil, passLog, ticks>>
scanVars == <<database, previousPhotoCount, scans, lastEndCount, rescans, peerInbox>>
peerVars == <<peers, wire, peerTrace, transfers>>
cacheVars == <<compressionCache, cacheFiles, compressions, rescanCall>>
signalVars == <<superseded, signaling>>
folderVars == <<folderPhotos, folderStructure>>
vars == <<queue, busy, running, jobs, startCnt, settleCnt, batches, sockets,
          now, tokenStore, jsonFile, fileEvents, cache, cacheTimestamp,
          authAttempts, sweepTodo, activeUntil, passLog, ticks,
          database, previousPhotoCount, scans, lastEndCount, rescans, peerInbox,
          peers, wire, peerTrace, transfers, compressionCache, cacheFiles, compressions,
          rescanCall, superseded, signaling, folderPhotos, folderStructure>>

(***************************************************************************)
(* Bounds                                                                  *)
(***************************************************************************)
\* number of batch requests the clients send in one run
MaxBatches == 2

Sockets == {"s1", "s2"}
NULL == "null"

Min(a, b) == IF a < b THEN a ELSE b

(***************************************************************************)
(* Photo catalog and disk                                                  *)
(***************************************************************************)
\* ids a client may ask for: a good photo, a catalog record whose file is
\* gone, a file sharp cannot decode, and an id the catalog does not hold
PhotoIds == {"pOk", "pGone", "pBad", "pAbsent"}

\* a catalog record as scanDirectoryRecursive builds it (ext is
\* path.extname(path), which the worker computes from the path)
Photo(id, filename, ext, size, modified, width, height) ==
    [id |-> id, filename |-> filename, path |-> "/r/" \o filename, ext |-> ext,
     size |-> size, modified |-> modified, width |-> width, height |-> height,
     rootPath |-> "/r", folderPath |-> ""]

rOk == Photo("pOk", "ok.png", ".png", 3, 11, 4, 3)
rGone == Photo("pGone", "gone.jpg", ".jpg", 2, 12, 2, 2)
\* getImageDimensions answers 0 x 0 for a file sharp cannot read
rBad == Photo("pBad", "bad.jpg", ".jpg", 2, 13, 0, 0)
\* a file of no bytes
rEmpty == Photo("pEmpty", "empty.jpg", ".jpg", 0, 14, 0, 0)

\* the catalog the scan at startup built
photosDatabase == << rOk, rGone, rBad >>

\* files present on disk, by path
diskFiles ==
    [p \in {"/r/ok.png", "/r/bad.jpg", "/r/empty.jpg"} |->
        IF p = "/r/ok.png" THEN <<5, 1, 4>>
        ELSE IF p = "/r/bad.jpg" THEN <<9, 9>> ELSE <<>>]

\* files the image library fails to decode
undecodable == {"/r/bad.jpg", "/r/empty.jpg"}

NoPhoto ==
    [id |-> NULL, filename |-> "", path |-> "", ext |-> "", size |-> 0, modified |-> 0,
     width |-> 0, height |-> 0, rootPath |-> "", folderPath |-> ""]

\* this.database.find(p => p.id === id) || null
getPhoto(id) ==
    LET hits == {i \in 1..Len(database) : database[i].id = id}
    IN IF hits = {} THEN NoPhoto
       ELSE database[CHOOSE i \in hits : \A k \in hits : i <= k]

existsSync(p) == p \in DOMAIN diskFiles

(***************************************************************************)
(* Image library and hashing                                               *)
(***************************************************************************)
\* sharp(path).resize(d, d, {inside, withoutEnlargement}).jpeg({quality}):
\* never longer than the source, a function of (bytes, quality, maxDimension)
sharpResize(bytes, quality, maxDimension) ==
    [i \in 1..Min(Len(bytes), maxDimension) |-> (bytes[i] * quality + i) % 7]

\* compressImage as the worker sees it: a buffer, or a thrown decode error
compressImage(filePath, quality, maxDimension) ==
    IF filePath \in undecodable
    THEN [ok |-> FALSE, buf |-> <<>>]
    ELSE [ok |-> TRUE, buf |-> sharpResize(diskFiles[filePath], quality, maxDimension)]

RECURSIVE md5Fold(_, _)
md5Fold(buf, h) ==
    IF buf = <<>> THEN h ELSE md5Fold(Tail(buf), (h * 31 + Head(buf) + 1) % 251)

\* crypto.createHash('md5').update(buf).digest('hex'), as a small digest
md5(buf) == md5Fold(buf, 7)

(***************************************************************************)
(* Manifests                                                               *)
(***************************************************************************)
CatalogIds == {"pOk", "pGone", "pBad"}

\* position of an id in the order Array.prototype.sort() puts strings in
idRank(id) ==
    CASE id = "pBad" -> 1
      [] id = "pGone" -> 2
      [] id = "pOk" -> 3

\* photos.map(p => p.id)
idsOf(photos) == [i \in 1..Len(photos) |-> photos[i].id]

\* ids.sort()
RECURSIVE sortIds(_)
sortIds(ids) ==
    IF ids = <<>> THEN <<>>
    ELSE LET h == Head(ids)
             rest == sortIds(Tail(ids))
         IN SelectSeq(rest, LAMBDA x : idRank(x) < idRank(h)) \o <<h>>
            \o SelectSeq(rest, LAMBDA x : idRank(x) >= idRank(h))

\* md5 of ids.join(''): ids have one length, so the joined string, and with
\* it the digest, tells two id sequences apart
RECURSIVE md5Join(_, _)
md5Join(ids, h) ==
    IF ids = <<>> THEN h
    ELSE md5Join(Tail(ids), h * (Cardinality(CatalogIds) + 1) + idRank(Head(ids)))

\* the content hash of a catalog: md5 over its sorted ids
calculateHash_unsorted(photos) == md5Join(idsOf(photos), 0)
calculateHash(photos) == md5Join(sortIds(idsOf(photos)), 0)

\* the manifest of handleManifestRequest: one entry per catalog record
streamManifest_withPath(photos) ==
    [i \in 1..Len(photos) |->
        [id |-> photos[i].id, filename |-> photos[i].path, size |-> photos[i].size,
         modified |-> photos[i].modified, width |-> photos[i].width,
         height |-> photos[i].height]]
streamManifest(photos) ==
    [i \in 1..Len(photos) |->
        [id |-> photos[i].id, filename |-> photos[i].filename, size |-> photos[i].size,
         modified |-> photos[i].modified, width |-> photos[i].width,
         height |-> photos[i].height]]

\* a property the catalog records do not have reads as undefined
Undefined == "undefined"

\* the message of WebRTCManager.sendManifest
sendManifestMessage(photos) ==
    [type |-> "manifest",
     photos |-> [i \in 1..Len(photos) |->
                   [id |-> photos[i].id, name |-> Undefined, size |-> photos[i].size,
                    width |-> photos[i].width, height |-> photos[i].height,
                    modified |-> photos[i].modified, created |-> Undefined]],
     count |-> Len(photos)]

mimeTypeOf(ext) ==
    CASE ext = ".jpg" -> "image/jpeg"
      [] ext = ".jpeg" -> "image/jpeg"
      [] ext = ".png" -> "image/png"
      [] ext = ".gif" -> "image/gif"
      [] ext = ".webp" -> "image/webp"
      [] ext = ".heic" -> "image/heic"
      [] OTHER -> "image/jpeg"

(***************************************************************************)
(* Events sent to a client                                                 *)
(***************************************************************************)
\* every event is a record of the same shape; a field an event does not
\* carry keeps its default
Ev(type) ==
    [type |-> type, photoId |-> "", chunk |-> <<>>, totalSize |-> 0,
     checksum |-> 0, mimeType |-> "", code |-> "", a |-> 0, b |-> 0, photos |-> <<>>]

\* socket.emit / ack on a socket: the packet reaches the client while the
\* connection is open and is discarded once it is closed; it never throws
Emit(socks, s, ev) ==
    IF socks[s].status = "connected"
    THEN [socks EXCEPT ![s].log = Append(@, ev)]
    ELSE socks

RECURSIVE EmitAll(_, _, _)
EmitAll(socks, s, evs) ==
    IF evs = <<>> THEN socks ELSE EmitAll(Emit(socks, s, Head(evs)), s, Tail(evs))

\* mutant: the checksum is taken over the source file, not over the buffer
\* that is sent
compressedEvents_hashOfSource(photoId, compressedBuffer) ==
    << [Ev("photo:data") EXCEPT !.photoId = photoId,
                                !.chunk = compressedBuffer,
                                !.totalSize = Len(compressedBuffer),
                                !.checksum = md5(diskFiles[getPhoto(photoId).path]),
                                !.mimeType = "image/jpeg"],
       [Ev("photo:complete") EXCEPT !.photoId = photoId,
                                    !.totalSize = Len(compressedBuffer),
                                    !.checksum = md5(diskFiles[getPhoto(photoId).path])] >>

\* the photo:data and photo:complete of a compressed job
compressedEvents(photoId, compressedBuffer) ==
    << [Ev("photo:data") EXCEPT !.photoId = photoId,
                                !.chunk = compressedBuffer,
                                !.totalSize = Len(compressedBuffer),
                                !.checksum = md5(compressedBuffer),
                                !.mimeType = "image/jpeg"],
       [Ev("photo:complete") EXCEPT !.photoId = photoId,
                                    !.totalSize = Len(compressedBuffer),
                                    !.checksum = md5(compressedBuffer)] >>

\* the photo:data and photo:complete of an original job
originalEvents(photo, fullBuffer) ==
    << [Ev("photo:data") EXCEPT !.photoId = photo.id,
                                !.chunk = fullBuffer,
                                !.totalSize = Len(fullBuffer),
                                !.checksum = md5(fullBuffer),
                                !.mimeType = mimeTypeOf(photo.ext)],
       [Ev("photo:complete") EXCEPT !.photoId = photo.id,
                                    !.totalSize = Len(fullBuffer),
                                    !.checksum = md5(fullBuffer)] >>

(***************************************************************************)
(* PhotoWorker                                                             *)
(***************************************************************************)
Worker == [queue |-> queue, busy |-> busy, running |-> running]

\* processCompressedPhoto / processOriginalPhoto up to their first await:
\* the catalog lookup and the existence check throw, otherwise the job waits
\* for the compression (or the file read)
processStart(job) ==
    LET photo == getPhoto(job.photoId) IN
    IF job.type \notin {"compressed", "original"}
    THEN [job |-> job, phase |-> "returned", err |-> ""]
    ELSE IF photo = NoPhoto
    THEN [job |-> job, phase |-> "threw", err |-> "Photo not found in database"]
    ELSE IF ~existsSync(photo.path)
    THEN [job |-> job, phase |-> "threw", err |-> "Photo file not found on disk"]
    ELSE [job |-> job, phase |-> "await", err |-> ""]

\* mutant: the loop takes the newest job (pop) instead of the oldest
shiftJob_pop(q) == [job |-> q[Len(q)], rest |-> SubSeq(q, 1, Len(q) - 1)]

\* the job the loop takes next, and what it leaves in the queue
shiftJob(q) == [job |-> Head(q), rest |-> Tail(q)]

\* mutant: the loop ends without `this.busy = false`
processLoop_busyStuck(w) ==
    IF Len(w.queue) > 0
    THEN [queue |-> shiftJob(w.queue).rest, busy |-> w.busy,
          running |-> w.running \cup {processStart(shiftJob(w.queue).job)}]
    ELSE w

\* one evaluation of the while condition of processQueue: shift and start
\* the next job, or leave the loop and clear busy
processLoop(w) ==
    IF Len(w.queue) > 0
    THEN [queue |-> shiftJob(w.queue).rest, busy |-> w.busy,
          running |-> w.running \cup {processStart(shiftJob(w.queue).job)}]
    ELSE [w EXCEPT !.busy = FALSE]

\* mutant: processQueue enters its loop without `this.busy = true`
processQueue_busyNotSet(w) ==
    IF w.busy \/ Len(w.queue) = 0 THEN w ELSE processLoop(w)

processQueue(w) ==
    IF w.busy \/ Len(w.queue) = 0 THEN w
    ELSE processLoop([w EXCEPT !.busy = TRUE])

queueJob(w, job) ==
    LET pushed == [w EXCEPT !.queue = Append(@, job)]
    IN IF ~pushed.busy THEN processQueue(pushed) ELSE pushed

(***************************************************************************)
(* History of the jobs passed to queueJob                                  *)
(***************************************************************************)
NewJob(id, type, photoId, quality, maxDimension, s, b) ==
    [id |-> id, type |-> type, photoId |-> photoId, quality |-> quality,
     maxDimension |-> maxDimension, socket |-> s, batch |-> b]

\* enqBusy, enqLen: the worker's busy flag and queue length when queueJob
\* was called for the job
JobEntry(job, enqBusy, enqLen) ==
    [job |-> job, state |-> "queued", starts |-> 0, settles |-> 0,
     startOrd |-> 0, settleOrd |-> 0, err |-> "", enqBusy |-> enqBusy,
     enqLen |-> enqLen]

startedIds(w0, w1) == {r.job.id : r \in w1.running \ w0.running}

MarkStarted(js, ids, ord) ==
    [i \in DOMAIN js |->
        IF i \in ids
        THEN [js[i] EXCEPT !.state = "running", !.starts = @ + 1, !.startOrd = ord]
        ELSE js[i]]

\* the shared tail of every worker step: install the worker state w1 reached
\* from w0 and record the jobs that began executing on the way
InstallWorker(w0, w1, js) ==
    /\ queue' = w1.queue
    /\ busy' = w1.busy
    /\ running' = w1.running
    /\ jobs' = MarkStarted(js, startedIds(w0, w1), startCnt + 1)
    /\ startCnt' = startCnt + Cardinality(startedIds(w0, w1))

(***************************************************************************)
(* Batch handlers of the Socket.IO server                                  *)
(***************************************************************************)
MAX_BATCH_SIZE == 500

\* a request's photoIds: the ids listed, plus `extra` further ids for an
\* array too long to write out; isArray is FALSE for a non-array value
Request(isArray, photoIds, extra, quality, maxDimension) ==
    [isArray |-> isArray, photoIds |-> photoIds, extra |-> extra,
     quality |-> quality, maxDimension |-> maxDimension]

IdLists == { <<"pBad", "pOk">>, <<"pAbsent", "pGone">> }

\* photos:request-batch payloads (quality and maxDimension default to 50
\* and 1920 when the client leaves them out)
BatchRequests == { Request(TRUE, ids, 0, 50, 2) : ids \in IdLists }

\* photos:request-originals payloads
OriginalRequests == { Request(TRUE, ids, 0, 0, 0) : ids \in IdLists }

Ack(code) == [Ev("ack") EXCEPT !.code = code]

PhotoError(photoId, code) == [Ev("photo:error") EXCEPT !.photoId = photoId, !.code = code]

\* validation of a photos:request-batch payload: the error code, or "" 
batchRequestError_noQuality(data) ==
    IF ~data.isArray \/ Len(data.photoIds) + data.extra = 0 THEN "INVALID_REQUEST"
    ELSE IF Len(data.photoIds) + data.extra > MAX_BATCH_SIZE THEN "BATCH_TOO_LARGE"
    ELSE IF data.maxDimension < 1 \/ data.maxDimension > 10000 THEN "INVALID_DIMENSION"
    ELSE ""
batchRequestError(data) ==
    IF ~data.isArray \/ Len(data.photoIds) + data.extra = 0 THEN "INVALID_REQUEST"
    ELSE IF Len(data.photoIds) + data.extra > MAX_BATCH_SIZE THEN "BATCH_TOO_LARGE"
    ELSE IF data.quality < 1 \/ data.quality > 100 THEN "INVALID_QUALITY"
    ELSE IF data.maxDimension < 1 \/ data.maxDimension > 10000 THEN "INVALID_DIMENSION"
    ELSE ""

\* validation of a photos:request-originals payload
originalRequestError(data) ==
    IF ~data.isArray \/ Len(data.photoIds) + data.extra = 0 THEN "INVALID_REQUEST"
    ELSE IF Len(data.photoIds) + data.extra > MAX_BATCH_SIZE THEN "BATCH_TOO_LARGE"
    ELSE ""

BatchRec(s, kind, data, ids, notFound, error) ==
    [sock |-> s, kind |-> kind, request |-> data, ids |-> ids, notFound |-> notFound,
     pos |-> 1, job |-> 0, completedCount |-> 0, error |-> error,
     done |-> (error # "" \/ ids = <<>>)]

\* promise continuations that are ready to run: a settled await in
\* processQueue or in a batch handler. Node runs them all before it takes the
\* next event (request, disconnect, I/O completion) off the event loop
MicrotasksPending ==
    \/ \E r \in running : r.phase \in {"returned", "threw"}
    \/ \E b \in 1..Len(batches) :
          /\ ~batches[b].done
          /\ batches[b].job # 0
          /\ jobs[batches[b].job].state \in {"resolved", "rejected"}

(***************************************************************************)
(* Worker steps                                                            *)
(***************************************************************************)
\* the compression (or file read) a running job awaits completes; the rest
\* of processCompressedPhoto / processOriginalPhoto runs: checksum, the two
\* emits, return - or the awaited call throws
JobIOCompletes(r) ==
    /\ ~MicrotasksPending
    /\ r \in running
    /\ r.phase = "await"
    /\ LET job == r.job
           photo == getPhoto(job.photoId)
           res == IF job.type = "compressed"
                  THEN compressImage(photo.path, job.quality, job.maxDimension)
                  ELSE [ok |-> TRUE, buf |-> diskFiles[photo.path]]
           evs == IF job.type = "compressed"
                  THEN compressedEvents(job.photoId, res.buf)
                  ELSE originalEvents(photo, res.buf)
       IN IF res.ok
          THEN /\ sockets' = EmitAll(sockets, job.socket, evs)
               /\ running' = (running \ {r}) \cup {[r EXCEPT !.phase = "returned"]}
          ELSE /\ sockets' = sockets
               /\ running' = (running \ {r}) \cup
                      {[r EXCEPT !.phase = "threw", !.err = "Input file is corrupt"]}
    /\ UNCHANGED <<queue, busy, jobs, startCnt, settleCnt, batches>>
    /\ UNCHANGED authVars
    /\ UNCHANGED scanVars
    /\ UNCHANGED peerVars
    /\ UNCHANGED signalVars
    /\ UNCHANGED folderVars
    /\ UNCHANGED cacheVars

\* mutant: the error of a failed job escapes the loop, which ends with busy
\* still set
resumeAfter_stopOnError(w, r) == IF r.phase = "threw" THEN w ELSE processLoop(w)

\* mutant: the loop gives up when the job's target has disconnected
resumeAfter_stopOnDisconnect(w, r) ==
    IF sockets[r.job.socket].status # "connected" THEN w ELSE processLoop(w)

\* processQueue after `await process...(job)` has settled for r, with r
\* taken out of w: resolve or, in the catch block, reject; either way the
\* loop goes on to its next iteration
resumeAfter(w, r) == processLoop(w)

\* what the catch block of processQueue does with the job that threw
settleFailed(entry, r, ord) ==
    [entry EXCEPT !.state = "rejected", !.settles = @ + 1, !.settleOrd = ord,
                  !.err = r.err]

\* processQueue resumes after `await process...(job)`: job.resolve() or, in
\* the catch block, job.reject(error); then the while condition is evaluated
\* again
ProcessQueueResume(r) ==
    /\ r \in running
    /\ r.phase \in {"returned", "threw"}
    /\ LET w0 == [Worker EXCEPT !.running = running \ {r}]
           w1 == resumeAfter(w0, r)
           js == [jobs EXCEPT ![r.job.id] =
                     IF r.phase = "returned"
                     THEN [@ EXCEPT !.state = "resolved", !.settles = @ + 1,
                                    !.settleOrd = settleCnt + 1]
                     ELSE settleFailed(@, r, settleCnt + 1)]
       IN InstallWorker(w0, w1, js)
    /\ settleCnt' = settleCnt + 1
    /\ UNCHANGED <<batches, sockets>>
    /\ UNCHANGED authVars
    /\ UNCHANGED scanVars
    /\ UNCHANGED peerVars
    /\ UNCHANGED signalVars
    /\ UNCHANGED folderVars
    /\ UNCHANGED cacheVars

\* a request reaches a handler only on a socket that registered it and
\* whose connection is open
CanRequest(s) ==
    /\ ~MicrotasksPending
    /\ sockets[s].handlers
    /\ sockets[s].status = "connected"

\* the handler enqueues the job for ids[pos] of batch b and awaits it
EnqueueFor(b, rec, socks) ==
    LET id == Len(jobs) + 1
        job == NewJob(id, rec.kind, rec.ids[rec.pos],
                      rec.request.quality, rec.request.maxDimension, rec.sock, b)
        w1 == queueJob(Worker, job)
    IN /\ InstallWorker(Worker, w1, Append(jobs, JobEntry(job, busy, Len(queue))))
       /\ batches' = IF b > Len(batches)
                     THEN Append(batches, [rec EXCEPT !.job = id])
                     ELSE [batches EXCEPT ![b] = [rec EXCEPT !.job = id]]
       /\ sockets' = socks

\* mutant: success is acknowledged as soon as the batch has started
handleBatchRequest_ackAtOnce(s, data) ==
    /\ CanRequest(s)
    /\ LET code == batchRequestError(data)
           rec == BatchRec(s, "compressed", data, data.photoIds, <<>>, code)
       IN IF code # ""
          THEN /\ sockets' = Emit(sockets, s, Ack(code))
               /\ batches' = Append(batches, rec)
               /\ UNCHANGED <<queue, busy, running, jobs, startCnt>>
          ELSE EnqueueFor(Len(batches) + 1, rec,
                   EmitAll(sockets, s,
                        << [Ev("photos:batch-started") EXCEPT !.a = Len(data.photoIds)],
                           Ack("success") >>))
    /\ UNCHANGED settleCnt
    /\ UNCHANGED authVars
    /\ UNCHANGED scanVars
    /\ UNCHANGED peerVars
    /\ UNCHANGED signalVars
    /\ UNCHANGED folderVars
    /\ UNCHANGED cacheVars

handleBatchRequest(s, data) ==
    /\ CanRequest(s)
    /\ LET code == batchRequestError(data)
           rec == BatchRec(s, "compressed", data, data.photoIds, <<>>, code)
       IN IF code # ""
          THEN /\ sockets' = Emit(sockets, s, Ack(code))
               /\ batches' = Append(batches, rec)
               /\ UNCHANGED <<queue, busy, running, jobs, startCnt>>
          ELSE EnqueueFor(Len(batches) + 1, rec,
                   Emit(sockets, s,
                        [Ev("photos:batch-started") EXCEPT !.a = Len(data.photoIds)]))
    /\ UNCHANGED settleCnt
    /\ UNCHANGED authVars
    /\ UNCHANGED scanVars
    /\ UNCHANGED peerVars
    /\ UNCHANGED signalVars
    /\ UNCHANGED folderVars
    /\ UNCHANGED cacheVars

RECURSIVE totalSizeOf(_)
totalSizeOf(ids) ==
    IF ids = <<>> THEN 0 ELSE getPhoto(Head(ids)).size + totalSizeOf(Tail(ids))

RECURSIVE notFoundErrors(_)
notFoundErrors(ids) ==
    IF ids = <<>> THEN <<>>
    ELSE <<PhotoError(Head(ids), "PHOTO_NOT_FOUND")>> \o notFoundErrors(Tail(ids))

\* mutant: every requested id is enqueued, whether the catalog holds it or not
handleOriginalBatchRequest_enqueueAll(s, data) ==
    /\ CanRequest(s)
    /\ LET code == originalRequestError(data)
           foundIds == data.photoIds
           notFoundIds == <<>>
           rec == BatchRec(s, "original", data, foundIds, notFoundIds, code)
           started == [Ev("photos:originals-started") EXCEPT
                          !.a = Len(foundIds), !.b = Len(notFoundIds),
                          !.totalSize = totalSizeOf(foundIds)]
       IN IF code # ""
          THEN /\ sockets' = Emit(sockets, s, Ack(code))
               /\ batches' = Append(batches, rec)
               /\ UNCHANGED <<queue, busy, running, jobs, startCnt>>
          ELSE IF foundIds = <<>>
          THEN /\ sockets' = EmitAll(sockets, s,
                     <<started>> \o notFoundErrors(notFoundIds) \o <<Ack("success")>>)
               /\ batches' = Append(batches, rec)
               /\ UNCHANGED <<queue, busy, running, jobs, startCnt>>
          ELSE EnqueueFor(Len(batches) + 1, rec, Emit(sockets, s, started))
    /\ UNCHANGED settleCnt
    /\ UNCHANGED authVars
    /\ UNCHANGED scanVars
    /\ UNCHANGED peerVars
    /\ UNCHANGED signalVars
    /\ UNCHANGED folderVars
    /\ UNCHANGED cacheVars

handleOriginalBatchRequest(s, data) ==
    /\ CanRequest(s)
    /\ LET code == originalRequestError(data)
           foundIds == SelectSeq(data.photoIds, LAMBDA id : getPhoto(id) # NoPhoto)
           notFoundIds == SelectSeq(data.photoIds, LAMBDA id : getPhoto(id) = NoPhoto)
           rec == BatchRec(s, "original", data, foundIds, notFoundIds, code)
           started == [Ev("photos:originals-started") EXCEPT
                          !.a = Len(foundIds), !.b = Len(notFoundIds),
                          !.totalSize = totalSizeOf(foundIds)]
       IN IF code # ""
          THEN /\ sockets' = Emit(sockets, s, Ack(code))
               /\ batches' = Append(batches, rec)
               /\ UNCHANGED <<queue, busy, running, jobs, startCnt>>
          ELSE IF foundIds = <<>>
          THEN /\ sockets' = EmitAll(sockets, s,
                     <<started>> \o notFoundErrors(notFoundIds) \o <<Ack("success")>>)
               /\ batches' = Append(batches, rec)
               /\ UNCHANGED <<queue, busy, running, jobs, startCnt>>
          ELSE EnqueueFor(Len(batches) + 1, rec, Emit(sockets, s, started))
    /\ UNCHANGED settleCnt
    /\ UNCHANGED authVars
    /\ UNCHANGED scanVars
    /\ UNCHANGED peerVars
    /\ UNCHANGED signalVars
    /\ UNCHANGED folderVars
    /\ UNCHANGED cacheVars

\* the handler resumes after `await this.photoWorker.queueJob(...)`: the
\* progress event or the catch block's photo:error, then the next id of the
\* loop, or the tail of the handler
\* mutant: the first failed job ends the batch
BatchResume_abortOnError(b) ==
    /\ b \in 1..Len(batches)
    /\ ~batches[b].done
    /\ batches[b].job # 0
    /\ jobs[batches[b].job].state \in {"resolved", "rejected"}
    /\ LET rec == batches[b]
           ok == jobs[rec.job].state = "resolved"
           cc == IF ok /\ rec.kind = "original"
                 THEN rec.completedCount + 1 ELSE rec.completedCount
           evs == IF ~ok
                  THEN <<PhotoError(rec.ids[rec.pos], "PROCESSING_FAILED")>>
                  ELSE IF rec.kind = "original" /\ (cc % 10 = 0 \/ cc = Len(rec.ids))
                  THEN <<[Ev("photos:batch-progress") EXCEPT !.a = cc, !.b = Len(rec.ids)]>>
                  ELSE <<>>
       IN IF ok /\ rec.pos < Len(rec.ids)
          THEN EnqueueFor(b, [rec EXCEPT !.pos = @ + 1, !.completedCount = cc],
                          EmitAll(sockets, rec.sock, evs))
          ELSE /\ sockets' = EmitAll(sockets, rec.sock,
                     evs \o notFoundErrors(rec.notFound) \o <<Ack("success")>>)
               /\ batches' = [batches EXCEPT ![b] =
                                 [rec EXCEPT !.completedCount = cc, !.done = TRUE]]
               /\ UNCHANGED <<queue, busy, running, jobs, startCnt>>
    /\ UNCHANGED settleCnt
    /\ UNCHANGED authVars
    /\ UNCHANGED scanVars
    /\ UNCHANGED peerVars
    /\ UNCHANGED signalVars
    /\ UNCHANGED folderVars
    /\ UNCHANGED cacheVars

\* mutant: the handler does not await the job it has enqueued
BatchResume_noAwait(b) ==
    /\ b \in 1..Len(batches)
    /\ ~batches[b].done
    /\ batches[b].job # 0
    /\ jobs[batches[b].job].state \in {"running", "resolved", "rejected"}
    /\ LET rec == batches[b]
           ok == jobs[rec.job].state = "resolved"
           cc == IF ok /\ rec.kind = "original"
                 THEN rec.completedCount + 1 ELSE rec.completedCount
           evs == IF ~ok
                  THEN <<PhotoError(rec.ids[rec.pos], "PROCESSING_FAILED")>>
                  ELSE IF rec.kind = "original" /\ (cc % 10 = 0 \/ cc = Len(rec.ids))
                  THEN <<[Ev("photos:batch-progress") EXCEPT !.a = cc, !.b = Len(rec.ids)]>>
                  ELSE <<>>
       IN IF rec.pos < Len(rec.ids)
          THEN EnqueueFor(b, [rec EXCEPT !.pos = @ + 1, !.completedCount = cc],
                          EmitAll(sockets, rec.sock, evs))
          ELSE /\ sockets' = EmitAll(sockets, rec.sock,
                     evs \o notFoundErrors(rec.notFound) \o <<Ack("success")>>)
               /\ batches' = [batches EXCEPT ![b] =
                                 [rec EXCEPT !.completedCount = cc, !.done = TRUE]]
               /\ UNCHANGED <<queue, busy, running, jobs, startCnt>>
    /\ UNCHANGED settleCnt
    /\ UNCHANGED authVars
    /\ UNCHANGED scanVars
    /\ UNCHANGED peerVars
    /\ UNCHANGED signalVars
    /\ UNCHANGED folderVars
    /\ UNCHANGED cacheVars

BatchResume(b) ==
    /\ b \in 1..Len(batches)
    /\ ~batches[b].done
    /\ batches[b].job # 0
    /\ jobs[batches[b].job].state \in {"resolved", "rejected"}
    /\ LET rec == batches[b]
           ok == jobs[rec.job].state = "resolved"
           cc == IF ok /\ rec.kind = "original"
                 THEN rec.completedCount + 1 ELSE rec.completedCount
           evs == IF ~ok
                  THEN <<PhotoError(rec.ids[rec.pos], "PROCESSING_FAILED")>>
                  ELSE IF rec.kind = "original" /\ (cc % 10 = 0 \/ cc = Len(rec.ids))
                  THEN <<[Ev("photos:batch-progress") EXCEPT !.a = cc, !.b = Len(rec.ids)]>>
                  ELSE <<>>
       IN IF rec.pos < Len(rec.ids)
          THEN EnqueueFor(b, [rec EXCEPT !.pos = @ + 1, !.completedCount = cc],
                          EmitAll(sockets, rec.sock, evs))
          ELSE /\ sockets' = EmitAll(sockets, rec.sock,
                     evs \o notFoundErrors(rec.notFound) \o <<Ack("success")>>)
               /\ batches' = [batches EXCEPT ![b] =
                                 [rec EXCEPT !.completedCount = cc, !.done = TRUE]]
               /\ UNCHANGED <<queue, busy, running, jobs, startCnt>>
    /\ UNCHANGED settleCnt
    /\ UNCHANGED authVars
    /\ UNCHANGED scanVars
    /\ UNCHANGED peerVars
    /\ UNCHANGED signalVars
    /\ UNCHANGED folderVars
    /\ UNCHANGED cacheVars

\* the client goes away (transport closed, app killed): the socket leaves
\* io.sockets.sockets; the disconnect handler only logs. closedDuring keeps
\* the jobs that were executing at that moment (history)
ClientDisconnect(s) ==
    /\ ~MicrotasksPending
    /\ sockets[s].status = "connected"
    /\ sockets' = [sockets EXCEPT ![s].status = "disconnected",
                                  ![s].closedDuring = {r.job.id : r \in running}]
    /\ UNCHANGED workerVars
    /\ UNCHANGED authVars
    /\ UNCHANGED scanVars
    /\ UNCHANGED peerVars
    /\ UNCHANGED signalVars
    /\ UNCHANGED folderVars
    /\ UNCHANGED cacheVars

(***************************************************************************)
(* Token store (main process) and device-tokens.json                       *)
(***************************************************************************)
\* time is counted in seconds; the 90-day lifetime createToken gives a token
TokenLifetime == 90 * 24 * 60 * 60

\* Date.now() when the model starts
StartTime == TokenLifetime + 100

Token(t, dev, createdAt, active) ==
    [token |-> t, deviceId |-> dev, userId |-> "local", active |-> active,
     expiresAt |-> createdAt + TokenLifetime]

NoToken == [token |-> NULL, deviceId |-> NULL, userId |-> NULL, active |-> FALSE,
            expiresAt |-> 0]

\* the store when the model starts: tA was paired a minute ago; tB almost 90
\* days ago, it expires 3 seconds from now; tR was revoked; tX was revoked
\* and has expired since
InitTokens == << Token("tA", "devA", StartTime - 60, TRUE),
                 Token("tB", "devB", 103, TRUE),
                 Token("tR", "devR", StartTime - 60, FALSE),
                 Token("tX", "devX", 50, FALSE) >>

TokenKeys == {InitTokens[i].token : i \in 1..Len(InitTokens)}

\* tokens.find(t => t.token === tokenValue)
findToken(tokens, key) ==
    LET hits == {i \in 1..Len(tokens) : tokens[i].token = key}
    IN IF hits = {} THEN NoToken
       ELSE tokens[CHOOSE i \in hits : \A k \in hits : i <= k]

\* DeviceTokenManager.revokeToken: the new contents of the store
revokeToken(tokens, key) ==
    [i \in 1..Len(tokens) |->
        IF tokens[i] = findToken(tokens, key)
        THEN [tokens[i] EXCEPT !.active = FALSE] ELSE tokens[i]]

\* DeviceTokenManager.deleteToken: the new contents of the store
deleteToken(tokens, key) == SelectSeq(tokens, LAMBDA t : t.token # key)

\* device-tokens.json: fs.writeFileSync truncates the file and then writes
\* it, so a reader in the server process can find it torn (not yet JSON)
File(tokens) == [torn |-> FALSE, tokens |-> tokens]
TornFile == [torn |-> TRUE, tokens |-> <<>>]

\* a token operation of the main process changed the store: syncToJsonFile
\* starts to rewrite the file, which raises a change event
StoreChanges(tokens) ==
    /\ ~jsonFile.torn
    /\ tokens # tokenStore
    /\ tokenStore' = tokens
    /\ activeUntil' = [k \in DOMAIN activeUntil |->
          IF findToken(tokenStore, k).active /\ ~findToken(tokens, k).active
          THEN now ELSE activeUntil[k]]
    /\ jsonFile' = TornFile
    /\ fileEvents' = TRUE
    /\ UNCHANGED <<now, cache, cacheTimestamp, authAttempts, passLog, sweepTodo, ticks>>
    /\ UNCHANGED workerVars
    /\ UNCHANGED scanVars
    /\ UNCHANGED peerVars
    /\ UNCHANGED signalVars
    /\ UNCHANGED folderVars
    /\ UNCHANGED cacheVars
    /\ UNCHANGED sockets

RevokeToken(key) == StoreChanges(revokeToken(tokenStore, key))

DeleteToken(key) == StoreChanges(deleteToken(tokenStore, key))

\* syncToJsonFile: writeFileSync has written the whole file
WriteCompletes ==
    /\ jsonFile.torn
    /\ jsonFile' = File(tokenStore)
    /\ fileEvents' = TRUE
    /\ UNCHANGED <<now, tokenStore, activeUntil, cache, cacheTimestamp, authAttempts, passLog, sweepTodo,
                   ticks>>
    /\ UNCHANGED workerVars
    /\ UNCHANGED scanVars
    /\ UNCHANGED peerVars
    /\ UNCHANGED signalVars
    /\ UNCHANGED folderVars
    /\ UNCHANGED cacheVars
    /\ UNCHANGED sockets

(***************************************************************************)
(* DeviceTokenManagerServer (server process, read-only, cached)            *)
(***************************************************************************)
CACHE_TTL == 5

NullCache == [isNull |-> TRUE, tokens |-> <<>>]

Manager == [cache |-> cache, cacheTimestamp |-> cacheTimestamp]

\* mutant: a cached list is used whatever its age
readTokens_noTtl(m, file, t) ==
    IF ~m.cache.isNull
    THEN [tokens |-> m.cache.tokens, m |-> m, fromFile |-> FALSE]
    ELSE IF file.torn
    THEN [tokens |-> <<>>, m |-> m, fromFile |-> TRUE]
    ELSE [tokens |-> file.tokens,
          m |-> [cache |-> [isNull |-> FALSE, tokens |-> file.tokens],
                 cacheTimestamp |-> t],
          fromFile |-> TRUE]

\* readTokens: the tokens returned and the manager afterwards. A file that
\* does not parse makes the catch block return [] and leaves the cache alone
readTokens(m, file, t) ==
    IF ~m.cache.isNull /\ (t - m.cacheTimestamp) < CACHE_TTL
    THEN [tokens |-> m.cache.tokens, m |-> m, fromFile |-> FALSE]
    ELSE IF file.torn
    THEN [tokens |-> <<>>, m |-> m, fromFile |-> TRUE]
    ELSE [tokens |-> file.tokens,
          m |-> [cache |-> [isNull |-> FALSE, tokens |-> file.tokens],
                 cacheTimestamp |-> t],
          fromFile |-> TRUE]

\* refreshCache: the manager after `this.cacheTimestamp = 0; readTokens()`
refreshCache(m, file, t) == readTokens([m EXCEPT !.cacheTimestamp = 0], file, t).m

\* a token value as a client presents it: its JavaScript type, its length,
\* whether it is all hex digits, and the 64-digit value it stands for
TokenValue(kind, len, hex, key) == [kind |-> kind, len |-> len, hex |-> hex, key |-> key]

HexToken(key) == TokenValue("string", 64, TRUE, key)

NoView == [looked |-> FALSE, tokens |-> <<>>]

View(tokens) == [looked |-> TRUE, tokens |-> tokens]

\* mutant: a revoked token still validates
validateToken_ignoreRevoked(tokenValue, m, file, t) ==
    LET rd == readTokens(m, file, t)
        token == findToken(rd.tokens, tokenValue.key)
    IN IF ~(tokenValue.kind = "string" /\ tokenValue.hex /\ tokenValue.len = 64)
       THEN [valid |-> FALSE, reason |-> "INVALID_FORMAT", token |-> NoToken,
             view |-> NoView, m |-> m]
       ELSE IF token = NoToken
       THEN [valid |-> FALSE, reason |-> "TOKEN_NOT_FOUND", token |-> NoToken,
             view |-> View(rd.tokens), m |-> rd.m]
       ELSE IF token.expiresAt < t
       THEN [valid |-> FALSE, reason |-> "TOKEN_EXPIRED", token |-> token,
             view |-> View(rd.tokens), m |-> rd.m]
       ELSE [valid |-> TRUE, reason |-> "", token |-> token,
             view |-> View(rd.tokens), m |-> rd.m]

\* validateToken: the verdict, the token list it looked the value up in
\* (NoView when it returned before readTokens) and the manager afterwards
validateToken(tokenValue, m, file, t) ==
    IF tokenValue.kind # "string" \/ tokenValue.len = 0
    THEN [valid |-> FALSE, reason |-> "INVALID_FORMAT", token |-> NoToken,
          view |-> NoView, m |-> m]
    ELSE IF ~(tokenValue.hex /\ tokenValue.len = 64)
    THEN [valid |-> FALSE, reason |-> "INVALID_FORMAT", token |-> NoToken,
          view |-> NoView, m |-> m]
    ELSE LET rd == readTokens(m, file, t)
             token == findToken(rd.tokens, tokenValue.key)
         IN IF token = NoToken
            THEN [valid |-> FALSE, reason |-> "TOKEN_NOT_FOUND", token |-> NoToken,
                  view |-> View(rd.tokens), m |-> rd.m]
            ELSE IF ~token.active
            THEN [valid |-> FALSE, reason |-> "TOKEN_REVOKED", token |-> token,
                  view |-> View(rd.tokens), m |-> rd.m]
            ELSE IF token.expiresAt < t
            THEN [valid |-> FALSE, reason |-> "TOKEN_EXPIRED", token |-> token,
                  view |-> View(rd.tokens), m |-> rd.m]
            ELSE [valid |-> TRUE, reason |-> "", token |-> token,
                  view |-> View(rd.tokens), m |-> rd.m]

(***************************************************************************)
(* Sockets, authentication middleware, rate limiting                       *)
(***************************************************************************)
MAX_AUTH_ATTEMPTS == 10
AUTH_WINDOW == 15 * 60

IPs == {"10.0.0.1", "10.0.0.2"}

NoData == [authenticated |-> FALSE, authToken |-> HexToken(NULL), userId |-> NULL,
           deviceId |-> NULL, ip |-> NULL]

\* the connection attempt a socket object stems from (history): the source
\* address, the token presented, the time, and the token list it was
\* validated against
NoAttempt == [ip |-> NULL, token |-> HexToken(NULL), at |-> 0, view |-> NoView,
              limited |-> FALSE]

NewSocket == [status |-> "idle", data |-> NoData, rooms |-> {}, handlers |-> FALSE,
              log |-> <<>>, closedDuring |-> {}, attempt |-> NoAttempt,
              error |-> "", retryAfter |-> 0, forced |-> "", served |-> 0]

\* socket.data as authMiddleware attaches it
SessionData(tokenValue, tok, ip) ==
    [authenticated |-> TRUE, authToken |-> tokenValue, userId |-> tok.userId,
     deviceId |-> tok.deviceId, ip |-> ip]

\* handleConnection: join the rooms, register the handlers
handleConnection(sock) ==
    [sock EXCEPT !.status = "connected",
                 !.rooms = {"authenticated", "user:" \o sock.data.userId,
                            "device:" \o sock.data.deviceId},
                 !.handlers = TRUE]

NoAttempts == [present |-> FALSE, count |-> 0, resetAt |-> 0]

\* Math.ceil(ms / 1000)
ceilSeconds(ms) == (ms + 999) \div 1000

\* checkRateLimit: the entry of the address afterwards and the verdict
checkRateLimit(attempts, ip, t) ==
    LET cur == IF ~attempts[ip].present \/ attempts[ip].resetAt < t
               THEN [present |-> TRUE, count |-> 0, resetAt |-> t + AUTH_WINDOW]
               ELSE attempts[ip]
        counted == [cur EXCEPT !.count = @ + 1]
    IN [attempts |-> [attempts EXCEPT ![ip] = counted],
        allowed |-> counted.count <= MAX_AUTH_ATTEMPTS,
        retryAfter |-> IF counted.count > MAX_AUTH_ATTEMPTS
                       THEN ceilSeconds((counted.resetAt - t) * 1000) ELSE 0]

\* the format checks authMiddleware makes itself, before the token manager
middlewareFormatError(tokenValue) ==
    IF tokenValue.kind # "string" \/ tokenValue.len = 0 \/ tokenValue.len # 64
    THEN "INVALID_TOKEN"
    ELSE IF ~tokenValue.hex THEN "INVALID_TOKEN"
    ELSE ""

\* mutant: the token is validated first and the rate limit checked after
authMiddleware_validateFirst(ip, tokenValue, attempts, m, file, t) ==
    LET rate == checkRateLimit(attempts, ip, t)
        fmt == middlewareFormatError(tokenValue)
        validation == validateToken(tokenValue, m, file, t)
        base == [error |-> "", retryAfter |-> 0, attempts |-> rate.attempts,
                 m |-> IF fmt = "" THEN validation.m ELSE m,
                 view |-> IF fmt = "" THEN validation.view ELSE NoView,
                 token |-> NoToken, limited |-> ~rate.allowed]
    IN IF fmt # ""
       THEN [base EXCEPT !.error = fmt, !.limited = FALSE]
       ELSE IF ~validation.valid
       THEN [base EXCEPT !.error = validation.reason, !.limited = FALSE]
       ELSE IF ~rate.allowed
       THEN [base EXCEPT !.error = "RATE_LIMIT_EXCEEDED", !.retryAfter = rate.retryAfter]
       ELSE [base EXCEPT !.token = validation.token]

\* authMiddleware: the error passed to next() ("" when it calls next()
\* without one), and what the checks that ran leave behind
authMiddleware(ip, tokenValue, attempts, m, file, t) ==
    LET rate == checkRateLimit(attempts, ip, t)
        fmt == middlewareFormatError(tokenValue)
        validation == validateToken(tokenValue, m, file, t)
        base == [error |-> "", retryAfter |-> 0, attempts |-> rate.attempts, m |-> m,
                 view |-> NoView, token |-> NoToken, limited |-> ~rate.allowed]
    IN IF ~rate.allowed
       THEN [base EXCEPT !.error = "RATE_LIMIT_EXCEEDED", !.retryAfter = rate.retryAfter]
       ELSE IF fmt # ""
       THEN [base EXCEPT !.error = fmt]
       ELSE IF ~validation.valid
       THEN [base EXCEPT !.error = validation.reason, !.m = validation.m,
                         !.view = validation.view]
       ELSE [base EXCEPT !.m = validation.m, !.view = validation.view,
                         !.token = validation.token]

\* what Socket.IO does with the middleware's verdict: with an error the
\* client gets connect_error and the socket is dropped; without one the
\* socket enters io.sockets.sockets and the connection handler runs
acceptSocket(sock, mw, ip, tokenValue) ==
    IF mw.error # ""
    THEN [sock EXCEPT !.status = "rejected", !.error = mw.error,
                      !.retryAfter = mw.retryAfter]
    ELSE handleConnection([sock EXCEPT !.data = SessionData(tokenValue, mw.token, ip)])

\* one more attempt passed the rate limit at time t (history)
LogPass(log, t) ==
    IF log # <<>> /\ log[Len(log)].at = t
    THEN [log EXCEPT ![Len(log)].n = @ + 1]
    ELSE Append(log, [at |-> t, n |-> 1])

\* a client connects from address ip presenting tokenValue; s names the new
\* socket object
Handshake(s, ip, tokenValue) ==
    /\ ~MicrotasksPending
    /\ sweepTodo = {}
    /\ sockets[s].status # "connected"
    /\ LET mw == authMiddleware(ip, tokenValue, authAttempts, Manager, jsonFile, now)
           fresh == [NewSocket EXCEPT !.attempt =
                        [ip |-> ip, token |-> tokenValue, at |-> now,
                         view |-> mw.view, limited |-> mw.limited]]
       IN /\ sockets' = [sockets EXCEPT ![s] = acceptSocket(fresh, mw, ip, tokenValue)]
          /\ authAttempts' = mw.attempts
          /\ passLog' = IF mw.limited THEN passLog
                        ELSE [passLog EXCEPT ![ip] = LogPass(@, now)]
          /\ cache' = mw.m.cache
          /\ cacheTimestamp' = mw.m.cacheTimestamp
    /\ UNCHANGED <<now, tokenStore, activeUntil, jsonFile, fileEvents, sweepTodo, ticks>>
    /\ UNCHANGED workerVars
    /\ UNCHANGED scanVars
    /\ UNCHANGED peerVars
    /\ UNCHANGED signalVars
    /\ UNCHANGED folderVars
    /\ UNCHANGED cacheVars

\* io.to('authenticated').emit(event, data)
broadcastToAuthenticated(socks, ev) ==
    [s \in Sockets |->
        IF "authenticated" \in socks[s].rooms THEN Emit(socks, s, ev)[s] ELSE socks[s]]

\* handleManifestRequest: the acknowledgment carries the count, the content
\* hash and the manifest of the catalog as it is when the request arrives
manifestAck(photos) ==
    [Ev("manifest") EXCEPT !.a = Len(streamManifest(photos)),
                           !.checksum = calculateHash(photos),
                           !.photos = streamManifest(photos)]

handleManifestRequest(s) ==
    /\ ~MicrotasksPending
    /\ sweepTodo = {}
    /\ sockets[s].handlers
    /\ sockets[s].status = "connected"
    /\ sockets' = [Emit(sockets, s, manifestAck(database))
                      EXCEPT ![s].served = @ + 1]
    /\ UNCHANGED workerVars
    /\ UNCHANGED authVars
    /\ UNCHANGED scanVars
    /\ UNCHANGED peerVars
    /\ UNCHANGED signalVars
    /\ UNCHANGED folderVars
    /\ UNCHANGED cacheVars

(***************************************************************************)
(* Token-file watcher and revocation sweep                                 *)
(***************************************************************************)
\* the fs.watch callback on a 'change' event: refresh the cache, then start
\* checkAuthenticatedConnections over the sockets of io.sockets.sockets
WatcherCallback ==
    /\ ~MicrotasksPending
    /\ fileEvents
    /\ sweepTodo = {}
    /\ fileEvents' = FALSE
    /\ cache' = refreshCache(Manager, jsonFile, now).cache
    /\ cacheTimestamp' = refreshCache(Manager, jsonFile, now).cacheTimestamp
    /\ sweepTodo' = {s \in Sockets : sockets[s].status = "connected"}
    /\ UNCHANGED <<now, tokenStore, activeUntil, jsonFile, authAttempts, passLog, ticks>>
    /\ UNCHANGED workerVars
    /\ UNCHANGED scanVars
    /\ UNCHANGED peerVars
    /\ UNCHANGED signalVars
    /\ UNCHANGED folderVars
    /\ UNCHANGED cacheVars
    /\ UNCHANGED sockets

\* mutant: the socket is closed before the notification is emitted
revokeSocket_closeFirst(socks, s, reason) ==
    Emit([socks EXCEPT ![s].status = "disconnected", ![s].forced = reason], s,
         [Ev("auth:revoked") EXCEPT !.code = reason])

\* the emit and the disconnect of checkAuthenticatedConnections for a socket
\* whose token does not validate
revokeSocket(socks, s, reason) ==
    [Emit(socks, s, [Ev("auth:revoked") EXCEPT !.code = reason])
        EXCEPT ![s].status = "disconnected", ![s].forced = reason]

\* one iteration of the loop of checkAuthenticatedConnections
SweepStep(s) ==
    /\ s \in sweepTodo
    /\ sweepTodo' = sweepTodo \ {s}
    /\ LET validation == validateToken(sockets[s].data.authToken, Manager, jsonFile, now)
       IN IF sockets[s].status = "connected" /\ sockets[s].data.authenticated
          THEN /\ cache' = validation.m.cache
               /\ cacheTimestamp' = validation.m.cacheTimestamp
               /\ sockets' = IF validation.valid THEN sockets
                             ELSE revokeSocket(sockets, s, validation.reason)
          ELSE UNCHANGED <<cache, cacheTimestamp, sockets>>
    /\ UNCHANGED <<now, tokenStore, activeUntil, jsonFile, fileEvents, authAttempts, passLog, ticks>>
    /\ UNCHANGED workerVars
    /\ UNCHANGED scanVars
    /\ UNCHANGED peerVars
    /\ UNCHANGED signalVars
    /\ UNCHANGED folderVars
    /\ UNCHANGED cacheVars

\* time passes
Tick(dt) ==
    /\ sweepTodo = {}
    /\ ~MicrotasksPending
    /\ now' = now + dt
    /\ ticks' = ticks + 1
    /\ UNCHANGED <<tokenStore, activeUntil, jsonFile, fileEvents, cache, cacheTimestamp,
                   authAttempts, passLog, sweepTodo>>
    /\ UNCHANGED workerVars
    /\ UNCHANGED scanVars
    /\ UNCHANGED peerVars
    /\ UNCHANGED signalVars
    /\ UNCHANGED folderVars
    /\ UNCHANGED cacheVars
    /\ UNCHANGED sockets

(***************************************************************************)
(* Rescans of the photo directories                                        *)
(***************************************************************************)
\* scanPhotos is started by the five-minute timer and by POST /api/rescan;
\* neither waits for a scan that is still running
ScanIds == {"timer", "manual"}

\* pre and post keep the catalog a scan found and the one it is building
NoScan == [pc |-> "idle", todo |-> <<>>, pre |-> <<>>, post |-> <<>>]

NoMessage == [type |-> "", photos |-> <<>>, count |-> 0]

\* scanPhotos up to its first await: the array is emptied in place; without
\* an enabled path the function returns at once, otherwise it goes on to
\* read the directories (found is what they hold, in readdir order)
scanPhotosBegins(k, enabled, found) ==
    /\ ~MicrotasksPending
    /\ scans[k].pc = "idle"
    /\ database' = <<>>
    /\ rescans' = rescans + 1
    /\ IF enabled
       THEN /\ scans' = [scans EXCEPT ![k] = [pc |-> "scanning", todo |-> found,
                                              pre |-> database, post |-> found]]
            /\ UNCHANGED lastEndCount
       ELSE /\ lastEndCount' = 0
            /\ UNCHANGED scans
    /\ UNCHANGED <<previousPhotoCount, peerInbox, sockets>>
    /\ UNCHANGED workerVars
    /\ UNCHANGED authVars
    /\ UNCHANGED peerVars
    /\ UNCHANGED signalVars
    /\ UNCHANGED folderVars

ScanStart(k, enabled, found) ==
    /\ scanPhotosBegins(k, enabled, found)
    /\ UNCHANGED cacheVars

\* scanDirectoryRecursive after the awaits on one image file: its record is
\* pushed onto the array
ScanPush(k) ==
    /\ ~MicrotasksPending
    /\ scans[k].pc = "scanning"
    /\ scans[k].todo # <<>>
    /\ database' = Append(database, Head(scans[k].todo))
    /\ scans' = [scans EXCEPT ![k].todo = Tail(@)]
    /\ UNCHANGED <<previousPhotoCount, lastEndCount, rescans, peerInbox, sockets>>
    /\ UNCHANGED workerVars
    /\ UNCHANGED authVars
    /\ UNCHANGED peerVars
    /\ UNCHANGED signalVars
    /\ UNCHANGED folderVars
    /\ UNCHANGED cacheVars

manifestUpdated(previousCount, currentCount) ==
    [Ev("manifest:updated") EXCEPT !.code = "PHOTO_SCAN_COMPLETE",
                                   !.a = previousCount, !.b = currentCount]

\* scanPhotos after the last directory: the array's length is compared with
\* previousPhotoCount, a change is broadcast, and the count is remembered
\* (wsServerInstance is set once the server is up)
scanPhotosEnds(k) ==
    /\ ~MicrotasksPending
    /\ scans[k].pc = "scanning"
    /\ scans[k].todo = <<>>
    /\ LET currentPhotoCount == Len(database)
       IN /\ sockets' = IF currentPhotoCount # previousPhotoCount
                        THEN broadcastToAuthenticated(sockets,
                                 manifestUpdated(previousPhotoCount, currentPhotoCount))
                        ELSE sockets
          /\ previousPhotoCount' = currentPhotoCount
          /\ lastEndCount' = currentPhotoCount
    /\ scans' = [scans EXCEPT ![k] = NoScan]
    /\ UNCHANGED <<database, rescans, peerInbox>>
    /\ UNCHANGED workerVars
    /\ UNCHANGED authVars
    /\ UNCHANGED peerVars
    /\ UNCHANGED signalVars
    /\ UNCHANGED folderVars

ScanEnd(k) ==
    /\ scanPhotosEnds(k)
    /\ UNCHANGED cacheVars

\* WebRTCManager.sendManifest to the connected peer
sendManifest ==
    /\ ~MicrotasksPending
    /\ peerInbox' = sendManifestMessage(database)
    /\ UNCHANGED <<database, previousPhotoCount, scans, lastEndCount, rescans, sockets>>
    /\ UNCHANGED workerVars
    /\ UNCHANGED authVars
    /\ UNCHANGED peerVars
    /\ UNCHANGED signalVars
    /\ UNCHANGED folderVars
    /\ UNCHANGED cacheVars

(***************************************************************************)
(* WebRTCManager: peer links, their heartbeats and photo transfers         *)
(***************************************************************************)
\* clients the signaling server announces; it names every connection anew
ClientIds == {"c1", "c2"}

\* photoBuffer is cut into pieces of this many bytes (64 KiB, in units of
\* 32 KiB)
chunkSize == 2

\* a SimplePeer object and what the manager's two maps hold for its client:
\* inMap is this.peers.has(clientId), heartbeat is
\* this.peerHeartbeats.has(clientId); broken is a data channel that has
\* failed under a peer that still reports connected; closeDue is a 'close'
\* event that destroy() has scheduled
NoPeer ==
    [made |-> FALSE, inMap |-> FALSE, connected |-> FALSE, destroyed |-> FALSE,
     broken |-> FALSE, closeDue |-> FALSE, heartbeat |-> FALSE]

\* the manager's links as one value
Links == [peers |-> peers, wire |-> wire, trace |-> peerTrace]

Did(op, clientId) == [op |-> op, clientId |-> clientId]

\* what peer.send hands to the data channel: a JSON message or a binary
\* chunk (xfer and offset tell which sendPhoto call sent it, and from where)
Frame(type, photoId, size, chunk, xfer, offset) ==
    [type |-> type, photoId |-> photoId, size |-> size, chunk |-> chunk,
     xfer |-> xfer, offset |-> offset]

\* peer && !peer.destroyed && peer.connected
Usable(p) == p.inMap /\ ~p.destroyed /\ p.connected

sendToPeer_unchecked(st, clientId, message) ==
    IF st.peers[clientId].inMap
    THEN [st EXCEPT !.wire[clientId] = Append(@, message)]
    ELSE st

\* sendToPeer: sends on a usable peer; a send that throws is caught
sendToPeer(st, clientId, message) ==
    IF Usable(st.peers[clientId]) /\ ~st.peers[clientId].broken
    THEN [st EXCEPT !.wire[clientId] = Append(@, message)]
    ELSE st

stopPeerHeartbeat(st, clientId) ==
    IF st.peers[clientId].heartbeat
    THEN [st EXCEPT !.peers[clientId].heartbeat = FALSE,
                    !.trace = Append(@, Did("clearInterval", clientId))]
    ELSE st

startPeerHeartbeat_keepsOld(st, clientId) ==
    LET started == [st EXCEPT !.peers[clientId].heartbeat = TRUE,
                              !.trace = Append(@, Did("setInterval", clientId))]
    IN sendToPeer(started, clientId, Frame("ping", "", 0, <<>>, 0, 0))

startPeerHeartbeat(st, clientId) ==
    LET stopped == stopPeerHeartbeat(st, clientId)
        started == [stopped EXCEPT !.peers[clientId].heartbeat = TRUE,
                                   !.trace = Append(@, Did("setInterval", clientId))]
    IN sendToPeer(started, clientId, Frame("ping", "", 0, <<>>, 0, 0))

\* SimplePeer.destroy(): once only; the 'close' event follows in a microtask
peerDestroy(p) ==
    IF p.destroyed THEN p
    ELSE [p EXCEPT !.destroyed = TRUE, !.connected = FALSE, !.closeDue = TRUE]

closePeerConnection_alwaysEmits(st, clientId) ==
    LET stopped == stopPeerHeartbeat(st, clientId)
    IN [stopped EXCEPT
          !.peers[clientId] = IF @.inMap THEN [peerDestroy(@) EXCEPT !.inMap = FALSE] ELSE @,
          !.trace = @ \o << Did("peer-disconnected", clientId) >>]

closePeerConnection(st, clientId) ==
    LET stopped == stopPeerHeartbeat(st, clientId)
    IN IF stopped.peers[clientId].inMap
       THEN [stopped EXCEPT
               !.peers[clientId] = [peerDestroy(@) EXCEPT !.inMap = FALSE],
               !.trace = @ \o << Did("destroy", clientId),
                                Did("peer-disconnected", clientId) >>]
       ELSE stopped

\* WebRTCManager.sendManifest
sendPeerManifest(st, clientId) ==
    sendToPeer(st, clientId, Frame("manifest", "", Len(database), <<>>, 0, 0))

SetLinks(st) ==
    /\ peers' = st.peers
    /\ wire' = st.wire
    /\ peerTrace' = st.trace

\* a 'close' event that is due runs before any other callback
NoCloseDue == \A c \in ClientIds : ~peers[c].closeDue

OutsideLinks ==
    /\ UNCHANGED folderVars
    /\ UNCHANGED sockets
    /\ UNCHANGED workerVars
    /\ UNCHANGED authVars
    /\ UNCHANGED scanVars
    /\ UNCHANGED cacheVars

OutsidePeers ==
    /\ OutsideLinks
    /\ UNCHANGED signalVars

\* signaling 'client-joined': createPeerConnection(clientId)
ClientJoined(clientId) ==
    /\ NoCloseDue
    /\ signaling.connected
    /\ ~peers[clientId].made
    /\ peers' = [peers EXCEPT ![clientId] = [NoPeer EXCEPT !.made = TRUE, !.inMap = TRUE]]
    /\ UNCHANGED <<wire, peerTrace, transfers>>
    /\ OutsidePeers

\* the peer's 'connect' event
PeerConnects(clientId) ==
    /\ NoCloseDue
    /\ peers[clientId].inMap
    /\ ~peers[clientId].connected
    /\ ~peers[clientId].destroyed
    /\ LET up == [Links EXCEPT !.peers[clientId].connected = TRUE,
                               !.trace = Append(@, Did("peer-connected", clientId))]
       IN SetLinks(sendPeerManifest(startPeerHeartbeat(up, clientId), clientId))
    /\ UNCHANGED transfers
    /\ OutsidePeers

HeartbeatTick_closes(clientId) ==
    /\ NoCloseDue
    /\ peers[clientId].heartbeat
    /\ SetLinks(IF Usable(peers[clientId])
                THEN sendToPeer(Links, clientId, Frame("ping", "", 0, <<>>, 0, 0))
                ELSE closePeerConnection(Links, clientId))
    /\ UNCHANGED transfers
    /\ OutsidePeers

\* the 20 s interval that startPeerHeartbeat set
HeartbeatTick(clientId) ==
    /\ NoCloseDue
    /\ peers[clientId].heartbeat
    /\ SetLinks(IF Usable(peers[clientId])
                THEN sendToPeer(Links, clientId, Frame("ping", "", 0, <<>>, 0, 0))
                ELSE stopPeerHeartbeat(Links, clientId))
    /\ UNCHANGED transfers
    /\ OutsidePeers

\* the data channel fails under a peer that still reports connected: from
\* now on peer.send throws
ChannelBreaks(clientId) ==
    /\ NoCloseDue
    /\ Usable(peers[clientId])
    /\ ~peers[clientId].broken
    /\ peers' = [peers EXCEPT ![clientId].broken = TRUE]
    /\ UNCHANGED <<wire, peerTrace, transfers>>
    /\ OutsidePeers

\* the connection is lost or the remote side closes: the peer destroys
\* itself and its 'close' handler calls closePeerConnection
LinkCloses(clientId) ==
    /\ NoCloseDue
    /\ peers[clientId].made
    /\ ~peers[clientId].destroyed
    /\ LET gone == [Links EXCEPT !.peers[clientId].destroyed = TRUE,
                                 !.peers[clientId].connected = FALSE]
       IN SetLinks(closePeerConnection(gone, clientId))
    /\ UNCHANGED transfers
    /\ OutsidePeers

\* signaling 'client-disconnected'
ClientDisconnected(clientId) ==
    /\ NoCloseDue
    /\ signaling.connected
    /\ peers[clientId].made
    /\ SetLinks(closePeerConnection(Links, clientId))
    /\ UNCHANGED transfers
    /\ OutsidePeers

\* the 'close' event of a peer the manager destroyed
CloseEvent(clientId) ==
    /\ peers[clientId].closeDue
    /\ SetLinks(closePeerConnection([Links EXCEPT !.peers[clientId].closeDue = FALSE],
                                    clientId))
    /\ UNCHANGED transfers
    /\ OutsidePeers

\* the while loop of sendPhoto from tr.offset up to its next await or its
\* return; t is the call's number
sendChunks_countsOffset(st, tr, t) ==
    LET c == tr.clientId
        n == Len(tr.buf)
        complete(at) == Frame("photo-complete", tr.photoId, at, <<>>, t, 0)
        upto == Min(tr.offset + chunkSize, n)
        chunk == Frame("binary", "", upto - tr.offset,
                       SubSeq(tr.buf, tr.offset + 1, upto), t, tr.offset)
        sent == [st EXCEPT !.wire[c] = Append(@, chunk)]
        next == tr.offset + chunkSize
    IN IF tr.offset >= n
       THEN [st |-> sendToPeer(st, c, complete(tr.offset)), tr |-> [tr EXCEPT !.pc = "done"]]
       ELSE IF ~Usable(st.peers[c]) \/ st.peers[c].broken
       THEN [st |-> st, tr |-> [tr EXCEPT !.pc = "aborted"]]
       ELSE IF next < n
       THEN [st |-> sent, tr |-> [tr EXCEPT !.offset = next, !.pc = "pacing"]]
       ELSE [st |-> sendToPeer(sent, c, complete(next)),
             tr |-> [tr EXCEPT !.offset = next, !.pc = "done"]]

sendChunks(st, tr, t) ==
    LET c == tr.clientId
        n == Len(tr.buf)
        complete == Frame("photo-complete", tr.photoId, n, <<>>, t, 0)
        upto == Min(tr.offset + chunkSize, n)
        chunk == Frame("binary", "", upto - tr.offset,
                       SubSeq(tr.buf, tr.offset + 1, upto), t, tr.offset)
        sent == [st EXCEPT !.wire[c] = Append(@, chunk)]
        next == tr.offset + chunkSize
    IN IF tr.offset >= n
       THEN [st |-> sendToPeer(st, c, complete), tr |-> [tr EXCEPT !.pc = "done"]]
       ELSE IF ~Usable(st.peers[c]) \/ st.peers[c].broken
       THEN [st |-> st, tr |-> [tr EXCEPT !.pc = "aborted"]]
       ELSE IF next < n
       THEN [st |-> sent, tr |-> [tr EXCEPT !.offset = next, !.pc = "pacing"]]
       ELSE [st |-> sendToPeer(sent, c, complete),
             tr |-> [tr EXCEPT !.offset = next, !.pc = "done"]]

\* a 'request-photo' message arrives: handlePeerMessage calls sendPhoto and
\* does not wait for it; sendPhoto runs up to its await of sharp
RequestPhoto(clientId, photoId) ==
    /\ NoCloseDue
    /\ Usable(peers[clientId])
    /\ ~peers[clientId].broken
    /\ LET photo == getPhoto(photoId)
           tr == [clientId |-> clientId, photoId |-> photoId, quality |-> 60,
                  maxDimension |-> 1920, path |-> photo.path, buf |-> <<>>,
                  offset |-> 0, pc |-> "sharp"]
           t == Len(transfers) + 1
       IN IF photo = NoPhoto
          THEN /\ SetLinks(sendToPeer(Links, clientId,
                                      Frame("error", photoId, 0, <<>>, t, 0)))
               /\ transfers' = Append(transfers, [tr EXCEPT !.pc = "failed"])
          ELSE /\ transfers' = Append(transfers, tr)
               /\ UNCHANGED <<peers, wire, peerTrace>>
    /\ OutsidePeers

\* sharp settles: on a failure the original file is read instead, and when
\* that fails too the peer is told; then photo-start and the first chunk
SharpSettles(t) ==
    /\ NoCloseDue
    /\ transfers[t].pc = "sharp"
    /\ LET tr == transfers[t]
           c == tr.clientId
           decoded == existsSync(tr.path) /\ tr.path \notin undecodable
           buf == IF decoded
                  THEN sharpResize(diskFiles[tr.path], tr.quality, tr.maxDimension)
                  ELSE diskFiles[tr.path]
           start == Frame("photo-start", tr.photoId, Len(buf), <<>>, t, 0)
           run == sendChunks(sendToPeer(Links, c, start), [tr EXCEPT !.buf = buf], t)
       IN IF ~existsSync(tr.path)
          THEN /\ SetLinks(sendToPeer(Links, c, Frame("error", tr.photoId, 0, <<>>, t, 0)))
               /\ transfers' = [transfers EXCEPT ![t].pc = "failed"]
          ELSE /\ SetLinks(run.st)
               /\ transfers' = [transfers EXCEPT ![t] = run.tr]
    /\ OutsidePeers

\* the 1 ms timer between two chunks fires
TimerFires(t) ==
    /\ NoCloseDue
    /\ transfers[t].pc = "pacing"
    /\ LET run == sendChunks(Links, transfers[t], t)
       IN /\ SetLinks(run.st)
          /\ transfers' = [transfers EXCEPT ![t] = run.tr]
    /\ OutsidePeers

(***************************************************************************)
(* WebRTCManager: the signaling socket, its heartbeat, links that replace  *)
(* each other under one clientId, and destroy()                            *)
(***************************************************************************)
\* this.connected, this.heartbeatInterval and the socket itself (gone once
\* destroy() has set signalingSocket to null); intervals counts the interval
\* timers that were set and not cleared, unanswered is a ping that has been
\* emitted and whose pong has not come, reconnected tells that the socket
\* has connected more than once
ConnectedSignaling ==
    [connected |-> TRUE, heartbeatInterval |-> TRUE, intervals |-> 1,
     unanswered |-> TRUE, reconnected |-> FALSE, gone |-> FALSE]

\* the links a clientId had before: p joins them when createPeerConnection
\* makes the next one; a link that was still in the peer map stays open
EarlierLinks(links, p) ==
    IF p.made
    THEN Append(links, [connected |-> p.inMap /\ p.connected, closed |-> ~p.inMap])
    ELSE links

stopHeartbeat(sg) ==
    IF sg.heartbeatInterval
    THEN [sg EXCEPT !.heartbeatInterval = FALSE, !.intervals = @ - 1]
    ELSE sg

\* startHeartbeat: clears the timer there is, sets a new one and pings at once
startHeartbeat(sg) ==
    LET stopped == stopHeartbeat(sg)
        started == [stopped EXCEPT !.heartbeatInterval = TRUE, !.intervals = @ + 1]
    IN IF started.connected THEN [started EXCEPT !.unanswered = TRUE] ELSE started

\* createPeerConnection: the new SimplePeer takes the clientId's place in the
\* peer map; the heartbeat map is left as it is
createPeerConnection(st, clientId) ==
    [st EXCEPT !.peers[clientId] = [NoPeer EXCEPT !.made = TRUE, !.inMap = TRUE,
                                                  !.heartbeat = st.peers[clientId].heartbeat]]

\* signaling 'client-joined' for a clientId that has had a link before: the
\* link in the map, if there is one, is replaced and nothing is done to it
ClientRejoined(clientId) ==
    /\ NoCloseDue
    /\ signaling.connected
    /\ peers[clientId].made
    /\ SetLinks(createPeerConnection(Links, clientId))
    /\ superseded' = [superseded EXCEPT ![clientId] = EarlierLinks(@, peers[clientId])]
    /\ UNCHANGED <<transfers, signaling>>
    /\ OutsideLinks

\* signaling 'offer': a link is created only when the map has none for the
\* sender
OfferReceived(clientId) ==
    /\ NoCloseDue
    /\ signaling.connected
    /\ IF ~peers[clientId].inMap
       THEN /\ SetLinks(createPeerConnection(Links, clientId))
            /\ superseded' = [superseded EXCEPT ![clientId] =
                                  EarlierLinks(@, peers[clientId])]
       ELSE UNCHANGED <<peers, wire, peerTrace, superseded>>
    /\ UNCHANGED <<transfers, signaling>>
    /\ OutsideLinks

\* the 'connect' event of a link that has been replaced in the map: its
\* handler works by clientId
SupersededConnects(clientId, i) ==
    /\ NoCloseDue
    /\ ~superseded[clientId][i].connected
    /\ ~superseded[clientId][i].closed
    /\ superseded' = [superseded EXCEPT ![clientId][i].connected = TRUE]
    /\ LET up == [Links EXCEPT !.trace = Append(@, Did("peer-connected", clientId))]
       IN SetLinks(sendPeerManifest(startPeerHeartbeat(up, clientId), clientId))
    /\ UNCHANGED <<transfers, signaling>>
    /\ OutsideLinks

\* the 'close' event of a link that has been replaced in the map
SupersededCloses(clientId, i) ==
    /\ NoCloseDue
    /\ ~superseded[clientId][i].closed
    /\ superseded' = [superseded EXCEPT ![clientId][i] =
                         [connected |-> FALSE, closed |-> TRUE]]
    /\ SetLinks(closePeerConnection(Links, clientId))
    /\ UNCHANGED <<transfers, signaling>>
    /\ OutsideLinks

\* a 'ping' message arrives on a link that has been replaced in the map:
\* handlePeerMessage answers through sendToPeer(clientId)
SupersededPinged(clientId, i) ==
    /\ NoCloseDue
    /\ superseded[clientId][i].connected
    /\ ~superseded[clientId][i].closed
    /\ SetLinks(sendToPeer(Links, clientId, Frame("pong", "", 0, <<>>, 0, 0)))
    /\ UNCHANGED <<transfers, superseded, signaling>>
    /\ OutsideLinks

\* handlePeerMessage 'ping' on the link in the map
PeerPinged(clientId) ==
    /\ NoCloseDue
    /\ Usable(peers[clientId])
    /\ SetLinks(sendToPeer(Links, clientId, Frame("pong", "", 0, <<>>, 0, 0)))
    /\ UNCHANGED <<transfers, superseded, signaling>>
    /\ OutsideLinks

\* handlePeerMessage 'pong' on the link in the map: the latency is worked out
\* and, when high (above 1000 ms), a warning is logged
PeerPonged(clientId, high) ==
    /\ NoCloseDue
    /\ Usable(peers[clientId])
    /\ peerTrace' = Append(peerTrace, Did("latency", clientId))
    /\ UNCHANGED <<peers, wire, transfers, superseded, signaling>>
    /\ OutsideLinks

\* the signaling socket's 'disconnect' event
SignalingDisconnects ==
    /\ NoCloseDue
    /\ signaling.connected
    /\ signaling' = [stopHeartbeat(signaling) EXCEPT !.connected = FALSE]
    /\ UNCHANGED <<peers, wire, peerTrace, transfers, superseded>>
    /\ OutsideLinks

\* the signaling socket's 'connect' event after socket.io has reconnected
SignalingConnects ==
    /\ NoCloseDue
    /\ ~signaling.connected
    /\ ~signaling.gone
    /\ signaling' = startHeartbeat([signaling EXCEPT !.connected = TRUE,
                                                     !.reconnected = TRUE])
    /\ UNCHANGED <<peers, wire, peerTrace, transfers, superseded>>
    /\ OutsideLinks

\* the 30 s interval that startHeartbeat set
SignalingTick ==
    /\ NoCloseDue
    /\ signaling.heartbeatInterval
    /\ signaling' = IF signaling.connected
                    THEN [signaling EXCEPT !.unanswered = TRUE]
                    ELSE signaling
    /\ UNCHANGED <<peers, wire, peerTrace, transfers, superseded>>
    /\ OutsideLinks

\* the signaling socket's 'pong' event: the latency is logged
SignalingPong ==
    /\ NoCloseDue
    /\ signaling.connected
    /\ signaling.unanswered
    /\ signaling' = [signaling EXCEPT !.unanswered = FALSE]
    /\ UNCHANGED <<peers, wire, peerTrace, transfers, superseded>>
    /\ OutsideLinks

RECURSIVE stopPeerHeartbeats(_, _)
stopPeerHeartbeats(st, clientIds) ==
    IF clientIds = {} THEN st
    ELSE LET c == CHOOSE x \in clientIds : TRUE
         IN stopPeerHeartbeats(stopPeerHeartbeat(st, c), clientIds \ {c})

\* WebRTCManager.destroy(): both kinds of heartbeat are stopped, every peer
\* of the map is destroyed, the map is cleared and the socket disconnected
destroy ==
    /\ NoCloseDue
    /\ ~signaling.gone
    /\ LET stopped == stopPeerHeartbeats(Links, ClientIds)
       IN SetLinks([stopped EXCEPT
                      !.peers = [c \in ClientIds |->
                                    IF @[c].inMap
                                    THEN [peerDestroy(@[c]) EXCEPT !.inMap = FALSE]
                                    ELSE @[c]]])
    /\ signaling' = [stopHeartbeat(signaling) EXCEPT !.connected = FALSE, !.gone = TRUE]
    /\ UNCHANGED <<transfers, superseded>>
    /\ OutsideLinks

\* the signaling socket has connected and no client has joined
InitPeers ==
    /\ peers = [c \in ClientIds |-> NoPeer]
    /\ wire = [c \in ClientIds |-> <<>>]
    /\ peerTrace = <<>>
    /\ transfers = <<>>
    /\ superseded = [c \in ClientIds |-> <<>>]
    /\ signaling = ConnectedSignaling

(***************************************************************************)
(* Rendition cache: compressImage, clearDiskCache and POST /api/rescan     *)
(***************************************************************************)
\* getCacheKey: `${id}_${quality}_${maxDimension}`, kept as its three parts
getCacheKey(id, quality, maxDimension) == <<id, quality, maxDimension>>

\* the renditions that are asked for
CacheKeys ==
    {getCacheKey("pOk", 60, 1920), getCacheKey("pOk", 60, 2), getCacheKey("pBad", 60, 1920)}

\* born: how many rescans had begun when the entry was made, asked: how many
\* had begun when the call that computed its bytes was made (history)
NoEntry == [has |-> FALSE, buf |-> <<>>, born |-> 0, asked |-> 0]

NoRescanCall == [pc |-> "idle", todo |-> {}, begun |-> 0]

\* rescans begun so far: scanPhotos calls, and a POST /api/rescan that has
\* not reached its scanPhotos call yet
RescansBegun ==
    rescans + (IF rescanCall.pc = "unlinking" THEN 1 ELSE 0)

\* how many cache clears there have been, or -1 while one is running
CacheEpoch == IF rescanCall.pc = "unlinking" THEN -1 ELSE rescanCall.begun

OutsideCache ==
    /\ UNCHANGED sockets
    /\ UNCHANGED workerVars
    /\ UNCHANGED authVars
    /\ UNCHANGED scanVars
    /\ UNCHANGED peerVars
    /\ UNCHANGED signalVars
    /\ UNCHANGED folderVars

\* compressImage up to its first await: the memory map is looked up first,
\* then the cache file, and only then is the image compressed
\* (epoch is the cache epoch of the call, hit tells where the answer came from)
compressImageCalled(filePath, quality, maxDimension, id) ==
    LET cacheKey == getCacheKey(id, quality, maxDimension)
        call == [key |-> cacheKey, filePath |-> filePath, pc |-> "sharp", buf |-> <<>>,
                 hit |-> "none", computed |-> FALSE, asked |-> RescansBegun,
                 epoch |-> CacheEpoch, epochEnd |-> 0]
    IN /\ ~MicrotasksPending
       /\ compressions' = Append(compressions,
             IF compressionCache[cacheKey].has
             THEN [call EXCEPT !.pc = "done", !.buf = compressionCache[cacheKey].buf,
                               !.hit = "memory", !.epochEnd = CacheEpoch]
             ELSE IF cacheFiles[cacheKey].has
             THEN [call EXCEPT !.pc = "readFile", !.hit = "disk"]
             ELSE call)
       /\ UNCHANGED <<compressionCache, cacheFiles, rescanCall>>
       /\ OutsideCache

\* readFile of the cache file settles: what the file holds now goes into the
\* memory map and to the caller; a file deleted meanwhile makes the call throw
ReadFileSettles(i) ==
    /\ ~MicrotasksPending
    /\ compressions[i].pc = "readFile"
    /\ LET k == compressions[i].key
       IN IF cacheFiles[k].has
          THEN /\ compressionCache' =
                     [compressionCache EXCEPT ![k] = [has |-> TRUE, buf |-> cacheFiles[k].buf,
                                                      born |-> RescansBegun,
                                                      asked |-> cacheFiles[k].asked]]
               /\ compressions' = [compressions EXCEPT ![i].pc = "done",
                                                       ![i].buf = cacheFiles[k].buf,
                                                       ![i].epochEnd = CacheEpoch]
          ELSE /\ compressions' = [compressions EXCEPT ![i].pc = "threw"]
               /\ UNCHANGED compressionCache
    /\ UNCHANGED <<cacheFiles, rescanCall>>
    /\ OutsideCache

SharpDone_diskFirst(i) ==
    /\ ~MicrotasksPending
    /\ compressions[i].pc = "sharp"
    /\ LET c == compressions[i]
           buffer == sharpResize(diskFiles[c.filePath], c.key[2], c.key[3])
       IN IF existsSync(c.filePath) /\ c.filePath \notin undecodable
          THEN /\ cacheFiles' = [cacheFiles EXCEPT ![c.key] =
                                    [has |-> TRUE, buf |-> buffer, born |-> RescansBegun,
                                     asked |-> c.asked]]
               /\ compressionCache' =
                     [compressionCache EXCEPT ![c.key] = [has |-> TRUE, buf |-> buffer,
                                                          born |-> RescansBegun,
                                                          asked |-> c.asked]]
               /\ compressions' = [compressions EXCEPT ![i].pc = "done", ![i].buf = buffer,
                                                       ![i].computed = TRUE,
                                                       ![i].epochEnd = CacheEpoch]
          ELSE /\ compressions' = [compressions EXCEPT ![i].pc = "threw"]
               /\ UNCHANGED <<compressionCache, cacheFiles>>
    /\ UNCHANGED rescanCall
    /\ OutsideCache

\* sharp settles: the buffer goes into the memory map at once, the cache
\* file is written afterwards; a decode failure makes the call throw
SharpDone(i) ==
    /\ ~MicrotasksPending
    /\ compressions[i].pc = "sharp"
    /\ LET c == compressions[i]
           buffer == sharpResize(diskFiles[c.filePath], c.key[2], c.key[3])
       IN IF existsSync(c.filePath) /\ c.filePath \notin undecodable
          THEN /\ compressionCache' =
                     [compressionCache EXCEPT ![c.key] = [has |-> TRUE, buf |-> buffer,
                                                          born |-> RescansBegun,
                                                          asked |-> c.asked]]
               /\ compressions' = [compressions EXCEPT ![i].pc = "mkdir", ![i].buf = buffer,
                                                       ![i].computed = TRUE]
          ELSE /\ compressions' = [compressions EXCEPT ![i].pc = "threw"]
               /\ UNCHANGED compressionCache
    /\ UNCHANGED <<cacheFiles, rescanCall>>
    /\ OutsideCache

\* mkdir(CACHE_DIRECTORY) settles and writeFile opens the cache file, which
\* creates or truncates it
WriteFileOpens(i) ==
    /\ ~MicrotasksPending
    /\ compressions[i].pc = "mkdir"
    /\ cacheFiles' = [cacheFiles EXCEPT ![compressions[i].key] =
                         [has |-> TRUE, buf |-> <<>>, born |-> RescansBegun,
                          asked |-> compressions[i].asked]]
    /\ compressions' = [compressions EXCEPT ![i].pc = "writeFile"]
    /\ UNCHANGED <<compressionCache, rescanCall>>
    /\ OutsideCache

\* writeFile writes the bytes and settles; a file unlinked since it was
\* opened does not come back
WriteFileSettles(i) ==
    /\ ~MicrotasksPending
    /\ compressions[i].pc = "writeFile"
    /\ cacheFiles' = [cacheFiles EXCEPT ![compressions[i].key] =
                         IF @.has THEN [@ EXCEPT !.buf = compressions[i].buf] ELSE @]
    /\ compressions' = [compressions EXCEPT ![i].pc = "done",
                                            ![i].epochEnd = CacheEpoch]
    /\ UNCHANGED <<compressionCache, rescanCall>>
    /\ OutsideCache

\* POST /api/rescan up to the readdir of clearDiskCache: the memory map is
\* cleared and the cache files are listed
RescanRequested ==
    /\ ~MicrotasksPending
    /\ rescanCall.pc = "idle"
    /\ compressionCache' = [k \in CacheKeys |-> NoEntry]
    /\ rescanCall' = [pc |-> "unlinking", todo |-> {k \in CacheKeys : cacheFiles[k].has},
                      begun |-> rescanCall.begun + 1]
    /\ UNCHANGED <<cacheFiles, compressions>>
    /\ OutsideCache

\* clearDiskCache unlinks the next listed file
UnlinkNext(k) ==
    /\ ~MicrotasksPending
    /\ rescanCall.pc = "unlinking"
    /\ k \in rescanCall.todo
    /\ cacheFiles' = [cacheFiles EXCEPT ![k] = NoEntry]
    /\ rescanCall' = [rescanCall EXCEPT !.todo = @ \ {k}]
    /\ UNCHANGED <<compressionCache, compressions>>
    /\ OutsideCache

\* clearDiskCache has returned: the handler calls scanPhotos
RescanScans(found) ==
    /\ rescanCall.pc = "unlinking"
    /\ rescanCall.todo = {}
    /\ scanPhotosBegins("manual", TRUE, found)
    /\ rescanCall' = [rescanCall EXCEPT !.pc = "scanning"]
    /\ UNCHANGED <<compressionCache, cacheFiles, compressions>>

\* scanPhotos returns to the handler, which answers the request
RescanResponds ==
    /\ rescanCall.pc = "scanning"
    /\ scanPhotosEnds("manual")
    /\ rescanCall' = [rescanCall EXCEPT !.pc = "idle"]
    /\ UNCHANGED <<compressionCache, cacheFiles, compressions>>

\* the server has started: clearDiskCache has emptied the cache directory
InitRenditions ==
    /\ compressionCache = [k \in CacheKeys |-> NoEntry]
    /\ cacheFiles = [k \in CacheKeys |-> NoEntry]
    /\ compressions = <<>>
    /\ rescanCall = NoRescanCall

(***************************************************************************)
(* getFolderStructure / buildFolderStructure: the folder tree of a catalog *)
(***************************************************************************)
\* a photo of the catalog as far as the folder tree looks at it; folderPath
\* is kept as its parts, the way split('/') cuts it ('' has none)
FolderPhoto(rootPath, folderPath) == [rootPath |-> rootPath, folderPath |-> folderPath]

\* `${rootPath}::${folderPath}`
folderKey(rootPath, folderPath) == <<rootPath, "::">> \o folderPath

\* folderMap is kept in the order in which its entries were set
ensureFolderExists(folderMap, rootPath, folderPath) ==
    IF \E i \in 1..Len(folderMap) : folderMap[i].key = folderKey(rootPath, folderPath)
    THEN folderMap
    ELSE Append(folderMap, [key |-> folderKey(rootPath, folderPath), rootPath |-> rootPath,
                            folderPath |-> folderPath, photoCount |-> 0])

\* the loop over pathParts from its i-th round on
RECURSIVE ensureAncestors(_, _, _, _)
ensureAncestors(folderMap, rootPath, pathParts, i) ==
    IF i > Len(pathParts) THEN folderMap
    ELSE ensureAncestors(ensureFolderExists(folderMap, rootPath, SubSeq(pathParts, 1, i)),
                         rootPath, pathParts, i + 1)

countPhoto(folderMap, photo) ==
    [i \in 1..Len(folderMap) |->
        IF folderMap[i].key = folderKey(photo.rootPath, photo.folderPath)
        THEN [folderMap[i] EXCEPT !.photoCount = @ + 1]
        ELSE folderMap[i]]

collectFolder_ownFolderOnly(folderMap, photo) ==
    LET withRoot == ensureFolderExists(folderMap, photo.rootPath, <<>>)
        withOwn == ensureFolderExists(withRoot, photo.rootPath, photo.folderPath)
    IN countPhoto(withOwn, photo)

\* one round of database.forEach
collectFolder(folderMap, photo) ==
    LET withRoot == ensureFolderExists(folderMap, photo.rootPath, <<>>)
        withAncestors == IF photo.folderPath # <<>>
                         THEN ensureAncestors(withRoot, photo.rootPath, photo.folderPath, 1)
                         ELSE withRoot
    IN countPhoto(withAncestors, photo)

RECURSIVE collectFolders(_, _)
collectFolders(folderMap, photos) ==
    IF photos = <<>> THEN folderMap
    ELSE collectFolders(collectFolder(folderMap, Head(photos)), Tail(photos))

\* the key under which a folder looks for its parent
parentKey(folder) ==
    folderKey(folder.rootPath, SubSeq(folder.folderPath, 1, Len(folder.folderPath) - 1))

\* parent.subfolders after the hierarchy has been built
subfoldersOf(folderMap, parent) ==
    SelectSeq(folderMap, LAMBDA f : f.folderPath # <<>> /\ parentKey(f) = parent.key)

RECURSIVE SumTotals(_)
SumTotals(folders) ==
    IF folders = <<>> THEN 0
    ELSE Head(folders).totalPhotoCount + SumTotals(Tail(folders))

\* calculateRecursiveCount: the folder with its total and with the
\* subfolders that have photos
RECURSIVE calculateRecursiveCount(_, _)
calculateRecursiveCount(folderMap, folder) ==
    LET subs == subfoldersOf(folderMap, folder)
        counted == [i \in 1..Len(subs) |-> calculateRecursiveCount(folderMap, subs[i])]
    IN [rootPath |-> folder.rootPath, folderPath |-> folder.folderPath,
        photoCount |-> folder.photoCount,
        subfolders |-> SelectSeq(counted, LAMBDA sf : sf.totalPhotoCount > 0),
        totalPhotoCount |-> folder.photoCount + SumTotals(counted)]

getFolderStructure(photos) ==
    LET folderMap == collectFolders(<<>>, photos)
        rootFolders == SelectSeq(folderMap, LAMBDA f : f.folderPath = <<>>)
        counted == [i \in 1..Len(rootFolders) |->
                       calculateRecursiveCount(folderMap, rootFolders[i])]
    IN [folders |-> SelectSeq(counted, LAMBDA f : f.totalPhotoCount > 0),
        totalPhotos |-> Len(photos)]

\* nothing has been asked for yet
NoStructure == [built |-> FALSE, of |-> <<>>, folders |-> <<>>, totalPhotos |-> 0]

OutsideFolders ==
    /\ UNCHANGED sockets
    /\ UNCHANGED workerVars
    /\ UNCHANGED authVars
    /\ UNCHANGED scanVars
    /\ UNCHANGED peerVars
    /\ UNCHANGED cacheVars
    /\ UNCHANGED signalVars

\* a scan pushes a photo that lies in folderPath under rootPath
PhotoScanned(rootPath, folderPath) ==
    /\ folderPhotos' = Append(folderPhotos, FolderPhoto(rootPath, folderPath))
    /\ UNCHANGED folderStructure
    /\ OutsideFolders

\* GET /api/folders or the P2P manager asks for the folder tree
FoldersRequested ==
    /\ folderStructure' = [built |-> TRUE, of |-> folderPhotos,
                           folders |-> getFolderStructure(folderPhotos).folders,
                           totalPhotos |-> getFolderStructure(folderPhotos).totalPhotos]
    /\ UNCHANGED folderPhotos
    /\ OutsideFolders

InitFolders ==
    /\ folderPhotos = <<>>
    /\ folderStructure = NoStructure

(***************************************************************************)
(* Initial states                                                          *)
(***************************************************************************)
\* the server is up: the scan at startup has filled the catalog
InitCatalog ==
    /\ database = photosDatabase
    /\ previousPhotoCount = Len(photosDatabase)
    /\ scans = [k \in ScanIds |-> NoScan]
    /\ lastEndCount = Len(photosDatabase)
    /\ rescans = 0
    /\ peerInbox = NoMessage

\* the paired devices connect: the first with token tA, the second with tB
DeviceToken == [s \in Sockets |-> IF s = "s1" THEN HexToken("tA") ELSE HexToken("tB")]

InitAuthVars ==
    /\ now = StartTime
    /\ tokenStore = InitTokens
    /\ activeUntil = [k \in TokenKeys |-> 0]
    /\ passLog = [ip \in IPs |-> <<>>]
    /\ jsonFile = File(InitTokens)
    /\ fileEvents = FALSE
    /\ cache = NullCache
    /\ cacheTimestamp = 0
    /\ authAttempts = [ip \in IPs |-> NoAttempts]
    /\ sweepTodo = {}
    /\ ticks = 0

InitIdleWorker ==
    /\ queue = <<>>
    /\ busy = FALSE
    /\ running = {}
    /\ jobs = <<>>
    /\ startCnt = 0
    /\ settleCnt = 0
    /\ batches = <<>>

(***************************************************************************)
(* SpecWorker: the worker under the batch handlers of two live sessions    *)
(***************************************************************************)
\* the two handshakes that precede the worker's runs: from one address, the
\* first client presents token tA and the second token tB
FirstAuth ==
    authMiddleware("10.0.0.1", HexToken("tA"), [ip \in IPs |-> NoAttempts],
                   [cache |-> NullCache, cacheTimestamp |-> 0], File(InitTokens), StartTime)

SecondAuth ==
    authMiddleware("10.0.0.1", HexToken("tB"), FirstAuth.attempts, FirstAuth.m,
                   File(InitTokens), StartTime)

AuthOf == [s \in Sockets |-> IF s = "s1" THEN FirstAuth ELSE SecondAuth]

\* both clients have authenticated: s1 with token tA, s2 with token tB
InitWorker ==
    /\ InitIdleWorker
    /\ InitCatalog
    /\ InitPeers
    /\ InitFolders
    /\ InitRenditions
    /\ sockets = [s \in Sockets |->
          acceptSocket([NewSocket EXCEPT !.attempt =
                           [ip |-> "10.0.0.1", token |-> DeviceToken[s], at |-> StartTime,
                            view |-> AuthOf[s].view, limited |-> AuthOf[s].limited]],
                       AuthOf[s], "10.0.0.1", DeviceToken[s])]
    /\ now = StartTime
    /\ tokenStore = InitTokens
    /\ activeUntil = [k \in TokenKeys |-> 0]
    /\ jsonFile = File(InitTokens)
    /\ fileEvents = FALSE
    /\ cache = SecondAuth.m.cache
    /\ cacheTimestamp = SecondAuth.m.cacheTimestamp
    /\ authAttempts = SecondAuth.attempts
    /\ passLog = [ip \in IPs |->
          IF ip = "10.0.0.1" THEN LogPass(LogPass(<<>>, StartTime), StartTime) ELSE <<>>]
    /\ sweepTodo = {}
    /\ ticks = 0

RequestBatch ==
    \E s \in Sockets, data \in BatchRequests :
        /\ Len(batches) < MaxBatches
        /\ handleBatchRequest(s, data)
RequestOriginals ==
    \E s \in Sockets, data \in OriginalRequests :
        /\ Len(batches) < MaxBatches
        /\ handleOriginalBatchRequest(s, data)
IOCompletes == \E r \in running : JobIOCompletes(r)
QueueResumes == \E r \in running : ProcessQueueResume(r)
HandlerResumes == \E b \in 1..Len(batches) : BatchResume(b)
Disconnects == \E s \in Sockets : ClientDisconnect(s)

NextWorker ==
    \/ RequestBatch
    \/ RequestOriginals
    \/ IOCompletes
    \/ QueueResumes
    \/ HandlerResumes
    \/ Disconnects

SpecWorker == InitWorker /\ [][NextWorker]_vars

(***************************************************************************)
(* SpecFifo: three and more sessions' worth of single-photo compressed     *)
(* batches, so that several jobs wait in the queue at once                 *)
(***************************************************************************)
MaxFifoBatches == 3

FifoRequests == { Request(TRUE, <<id>>, 0, 50, 2) : id \in {"pOk", "pGone"} }

RequestFifoBatch ==
    \E s \in Sockets, data \in FifoRequests :
        /\ Len(batches) < MaxFifoBatches
        /\ handleBatchRequest(s, data)

RequestFifoOriginals ==
    \E s \in Sockets, data \in FifoRequests :
        /\ Len(batches) < MaxFifoBatches
        /\ handleOriginalBatchRequest(s, data)

NextFifo ==
    \/ RequestFifoBatch
    \/ RequestFifoOriginals
    \/ IOCompletes
    \/ QueueResumes
    \/ HandlerResumes

SpecFifo == InitWorker /\ [][NextFifo]_vars

(***************************************************************************)
(* FairSpecLive: compressed batches under the fairness the event loop      *)
(* gives: promise continuations always run, and a compression that was     *)
(* started terminates                                                      *)
(***************************************************************************)
MaxLiveBatches == 2

RequestLiveBatch ==
    \E s \in Sockets, data \in BatchRequests :
        /\ Len(batches) < MaxLiveBatches
        /\ handleBatchRequest(s, data)

NextLive ==
    \/ RequestLiveBatch
    \/ IOCompletes
    \/ QueueResumes
    \/ HandlerResumes
    \/ ClientDisconnect("s1")

FairSpecLive ==
    /\ InitWorker
    /\ [][NextLive]_vars
    /\ WF_vars(IOCompletes)
    /\ WF_vars(QueueResumes)
    /\ WF_vars(HandlerResumes)

(***************************************************************************)
(* SpecAuth: clients connect with every kind of credential                 *)
(***************************************************************************)
\* attempts an address makes beyond MAX_AUTH_ATTEMPTS in one window
MaxOverLimit == 1
MaxTicks == 1

\* what a client may present as handshake.auth.token
Credentials ==
    { TokenValue("undefined", 0, FALSE, NULL),
      TokenValue("string", 10, TRUE, NULL),
      TokenValue("string", 64, FALSE, NULL),
      HexToken("tU"), HexToken("tA"), HexToken("tB"), HexToken("tR"), HexToken("tX") }

\* clock advances: past the expiry of tB (and short of CACHE_TTL), and a
\* whole rate-limit window
ShortStep == CACHE_TTL - 1
TickSteps == {ShortStep, AUTH_WINDOW}

InitAuth ==
    /\ InitIdleWorker
    /\ InitCatalog
    /\ InitPeers
    /\ InitFolders
    /\ InitRenditions
    /\ sockets = [s \in Sockets |-> NewSocket]
    /\ InitAuthVars

\* attempts the second address makes
MaxOtherAttempts == 1

AttemptsLeft(ip) ==
    IF ip = "10.0.0.1"
    THEN authAttempts[ip].count < MAX_AUTH_ATTEMPTS + MaxOverLimit
    ELSE authAttempts[ip].count < MaxOtherAttempts

\* one client at a time: a new connection is made once the last one is gone
Connects ==
    \E ip \in IPs, tokenValue \in Credentials :
        /\ AttemptsLeft(ip)
        /\ Handshake("s1", ip, tokenValue)

RequestsManifest ==
    \E s \in Sockets :
        /\ sockets[s].served = 0
        /\ handleManifestRequest(s)

TimePasses == \E dt \in TickSteps : ticks < MaxTicks /\ Tick(dt)

SecondsPass == ticks < MaxTicks /\ Tick(ShortStep)

NextAuth ==
    \/ Connects
    \/ RequestsManifest
    \/ Disconnects
    \/ SecondsPass

SpecAuth == InitAuth /\ [][NextAuth]_vars

(***************************************************************************)
(* SpecRate: one address keeps connecting across rate-limit windows        *)
(***************************************************************************)
MaxRateTicks == 2

\* a client with a valid token and a client with none
RateCredentials == { HexToken("tA"), TokenValue("undefined", 0, FALSE, NULL) }

RateConnects ==
    \E tokenValue \in RateCredentials :
        /\ authAttempts["10.0.0.1"].count < MAX_AUTH_ATTEMPTS + MaxOverLimit
        /\ Handshake("s1", "10.0.0.1", tokenValue)

\* the other address makes its first attempt, with a token nobody issued
OtherConnects ==
    /\ ~authAttempts["10.0.0.2"].present
    /\ Handshake("s2", "10.0.0.2", HexToken("tU"))

RateTimePasses == \E dt \in TickSteps : ticks < MaxRateTicks /\ Tick(dt)

NextRate ==
    \/ RateConnects
    \/ OtherConnects
    \/ Disconnects
    \/ RateTimePasses

SpecRate == InitAuth /\ [][NextRate]_vars

(***************************************************************************)
(* SpecRevoke: tokens are revoked and deleted while sessions are live      *)
(***************************************************************************)
MaxReconnects == 2

Reconnects ==
    \E s \in Sockets :
        /\ authAttempts["10.0.0.1"].count < MaxReconnects
        /\ Handshake(s, "10.0.0.1", DeviceToken[s])

Revokes == RevokeToken("tA")

Deletes == DeleteToken("tB")

Sweeps == \E s \in Sockets : SweepStep(s)

NextRevoke ==
    \/ Reconnects
    \/ RequestsManifest
    \/ Disconnects
    \/ TimePasses
    \/ Revokes
    \/ Deletes
    \/ WriteCompletes
    \/ WatcherCallback
    \/ Sweeps

SpecRevoke == InitAuth /\ [][NextRevoke]_vars

\* the watcher's callback runs once an event is delivered, the loop of the
\* sweep runs to its end, and writeFileSync returns
FairSpecRevoke ==
    /\ InitAuth
    /\ [][NextRevoke]_vars
    /\ WF_vars(WatcherCallback)
    /\ WF_vars(Sweeps)
    /\ WF_vars(WriteCompletes)

(***************************************************************************)
(* SpecScan: rescans under two live sessions that ask for manifests        *)
(***************************************************************************)
\* number of scans started in one run
MaxRescans == 2
\* number of manifest requests the sessions send in one run
MaxManifests == 2

\* what the enabled paths hold when a scan reads them
Listings == { <<rOk, rBad>>, <<rBad, rOk>> }

ScanStarts ==
    \E k \in ScanIds :
        /\ rescans < MaxRescans
        /\ \/ \E found \in Listings : ScanStart(k, TRUE, found)
           \/ ScanStart(k, FALSE, <<>>)
ScanPushes == \E k \in ScanIds : ScanPush(k)
ScanEnds == \E k \in ScanIds : ScanEnd(k)
\* the first session asks for manifests, the second may leave
ManifestRequests ==
    /\ sockets["s1"].served < MaxManifests
    /\ handleManifestRequest("s1")
SecondLeaves == ClientDisconnect("s2")

NextScan ==
    \/ ScanStarts
    \/ ScanPushes
    \/ ScanEnds
    \/ ManifestRequests
    \/ SecondLeaves

SpecScan == InitWorker /\ [][NextScan]_vars

(***************************************************************************)
(* SpecManifest: manifests on both transports while the catalog changes    *)
(***************************************************************************)
\* the first session asks for its manifest once
FirstAsks ==
    /\ sockets["s1"].served = 0
    /\ handleManifestRequest("s1")

NextManifest ==
    \/ ScanStarts
    \/ ScanPushes
    \/ ScanEnds
    \/ FirstAsks
    \/ sendManifest

SpecManifest == InitWorker /\ [][NextManifest]_vars

(***************************************************************************)
(* SpecValidate: batch requests that pass and that fail validation         *)
(***************************************************************************)
\* number of requests the sessions send in one run
MaxValidated == 2

OneId == <<"pOk">>

\* photos:request-batch payloads around every limit of the validation: a
\* value that is no array, an empty array, MAX_BATCH_SIZE + 1 ids, quality
\* and maxDimension one below and one above their ranges and at their ends
CheckedBatchRequests ==
    { Request(FALSE, <<>>, 3, 50, 2),
      Request(TRUE, <<>>, 0, 50, 2),
      Request(TRUE, OneId, MAX_BATCH_SIZE, 50, 2),
      Request(TRUE, OneId, MAX_BATCH_SIZE, 0, 0),
      Request(TRUE, OneId, 0, 0, 2),
      Request(TRUE, OneId, 0, 101, 2),
      Request(TRUE, OneId, 0, 50, 0),
      Request(TRUE, OneId, 0, 50, 10001),
      Request(TRUE, OneId, 0, 0, 10001),
      Request(TRUE, OneId, 0, 1, 10000),
      Request(TRUE, OneId, 0, 100, 1) }

\* photos:request-originals payloads: no array, empty, too long, good
CheckedOriginalRequests ==
    { Request(FALSE, <<>>, 3, 0, 0),
      Request(TRUE, <<>>, 0, 0, 0),
      Request(TRUE, OneId, MAX_BATCH_SIZE, 0, 0),
      Request(TRUE, OneId, 0, 0, 0) }

RequestChecked ==
    \E s \in Sockets, data \in CheckedBatchRequests :
        /\ Len(batches) < MaxValidated
        /\ handleBatchRequest(s, data)
RequestCheckedOriginals ==
    \E s \in Sockets, data \in CheckedOriginalRequests :
        /\ Len(batches) < MaxValidated
        /\ handleOriginalBatchRequest(s, data)

NextValidate ==
    \/ RequestChecked
    \/ RequestCheckedOriginals
    \/ IOCompletes
    \/ QueueResumes
    \/ HandlerResumes
    \/ Disconnects

SpecValidate == InitWorker /\ [][NextValidate]_vars

(***************************************************************************)
(* SpecOriginals: batch-original requests that mix ids the catalog holds   *)
(* with ids it does not                                                    *)
(***************************************************************************)
\* number of batch-original requests the sessions send in one run
MaxOriginals == 2

\* none of the ids in the catalog; an absent id before and after a present
\* one; all in the catalog, the second without its file
OriginalLists ==
    { <<"pAbsent">>, <<"pAbsent", "pOk", "pAbsent">>, <<"pOk", "pGone">> }

RequestOriginalLists ==
    \E s \in Sockets, ids \in OriginalLists :
        /\ Len(batches) < MaxOriginals
        /\ handleOriginalBatchRequest(s, Request(TRUE, ids, 0, 0, 0))

NextOriginals ==
    \/ RequestOriginalLists
    \/ IOCompletes
    \/ QueueResumes
    \/ HandlerResumes
    \/ Disconnects

SpecOriginals == InitWorker /\ [][NextOriginals]_vars

(***************************************************************************)
(* SpecPeer: two P2P links with their heartbeats and photo transfers       *)
(***************************************************************************)
MaxLinkRequests == 1
MaxPings == 2

\* the catalog after a rescan that also found an empty file
peerCatalog == << rOk, rGone, rBad, rEmpty >>

PeerPhotoIds == {"pOk", "pBad", "pEmpty", "pGone", "pAbsent"}

InitPeer ==
    /\ InitIdleWorker
    /\ database = peerCatalog
    /\ previousPhotoCount = Len(peerCatalog)
    /\ scans = [k \in ScanIds |-> NoScan]
    /\ lastEndCount = Len(peerCatalog)
    /\ rescans = 1
    /\ peerInbox = NoMessage
    /\ sockets = [s \in Sockets |-> NewSocket]
    /\ InitAuthVars
    /\ InitPeers
    /\ InitFolders
    /\ InitRenditions

RECURSIVE CountFrames(_, _)
CountFrames(frames, type) ==
    IF frames = <<>> THEN 0
    ELSE (IF Head(frames).type = type THEN 1 ELSE 0) + CountFrames(Tail(frames), type)

Joins == \E c \in ClientIds : ClientJoined(c)
PeerLinksUp == \E c \in ClientIds : PeerConnects(c)
Heartbeats ==
    \E c \in ClientIds :
        /\ CountFrames(wire[c], "ping") < MaxPings
        /\ HeartbeatTick(c)
Breaks == \E c \in ClientIds : ChannelBreaks(c)
Closes == \E c \in ClientIds : LinkCloses(c)
Leaves == \E c \in ClientIds : ClientDisconnected(c)
CloseEvents == \E c \in ClientIds : CloseEvent(c)
PhotoRequests ==
    \E c \in ClientIds :
        /\ Len(transfers) < MaxLinkRequests
        /\ RequestPhoto(c, "pOk")
SharpResults == \E t \in 1..Len(transfers) : SharpSettles(t)
Timers == \E t \in 1..Len(transfers) : TimerFires(t)

NextPeer ==
    \/ Joins
    \/ PeerLinksUp
    \/ Heartbeats
    \/ Breaks
    \/ Closes
    \/ Leaves
    \/ CloseEvents
    \/ PhotoRequests
    \/ SharpResults
    \/ Timers

SpecPeer == InitPeer /\ [][NextPeer]_vars

(***************************************************************************)
(* SpecTransfer: photo requests that follow each other on one link         *)
(***************************************************************************)
MaxPhotoRequests == 2

FirstJoins == ClientJoined("c1")
FirstLinkUp == PeerConnects("c1")
FirstBreaks == ChannelBreaks("c1")
FirstCloses == LinkCloses("c1")
FirstLeaves == ClientDisconnected("c1")
FirstCloseEvent == CloseEvent("c1")
FirstRequests ==
    \E id \in PeerPhotoIds :
        /\ Len(transfers) < MaxPhotoRequests
        /\ RequestPhoto("c1", id)

NextTransfer ==
    \/ FirstJoins
    \/ FirstLinkUp
    \/ FirstBreaks
    \/ FirstCloses
    \/ FirstLeaves
    \/ FirstCloseEvent
    \/ FirstRequests
    \/ SharpResults
    \/ Timers

SpecTransfer == InitPeer /\ [][NextTransfer]_vars

(***************************************************************************)
(* SpecSignal: one clientId that joins again and again, the heartbeats of  *)
(* its links and of the signaling socket, and destroy()                    *)
(***************************************************************************)
MaxLinks == 2
MaxPeerPings == 2
MaxHeartbeatsIn == 1

\* the pings and pongs that have come in on the links of c1
HeartbeatsIn ==
    CountFrames(wire["c1"], "pong")
    + Cardinality({i \in 1..Len(peerTrace) : peerTrace[i].op = "latency"})

\* the links made for a clientId so far
LinksMade(c) == Len(superseded[c]) + (IF peers[c].made THEN 1 ELSE 0)

Rejoins ==
    /\ LinksMade("c1") < MaxLinks
    /\ ClientRejoined("c1")
Offers ==
    /\ LinksMade("c1") < MaxLinks
    /\ OfferReceived("c1")
SignalHeartbeats ==
    /\ CountFrames(wire["c1"], "ping") < MaxPeerPings
    /\ HeartbeatTick("c1")
EarlierLinkUp == \E i \in 1..Len(superseded["c1"]) : SupersededConnects("c1", i)
EarlierLinkCloses == \E i \in 1..Len(superseded["c1"]) : SupersededCloses("c1", i)
EarlierLinkPinged ==
    \E i \in 1..Len(superseded["c1"]) :
        /\ HeartbeatsIn < MaxHeartbeatsIn
        /\ SupersededPinged("c1", i)
PingsIn ==
    /\ HeartbeatsIn < MaxHeartbeatsIn
    /\ PeerPinged("c1")
PongsIn ==
    \E high \in BOOLEAN :
        /\ HeartbeatsIn < MaxHeartbeatsIn
        /\ CountFrames(wire["c1"], "ping") > 0
        /\ PeerPonged("c1", high)
SignalDrops == SignalingDisconnects
SignalReconnects == SignalingConnects
SignalTicks == SignalingTick
SignalPongs == SignalingPong
Destroys == destroy

NextSignal ==
    \/ FirstJoins
    \/ FirstLinkUp
    \/ FirstCloses
    \/ FirstLeaves
    \/ FirstCloseEvent
    \/ Rejoins
    \/ Offers
    \/ SignalHeartbeats
    \/ EarlierLinkUp
    \/ EarlierLinkCloses
    \/ EarlierLinkPinged
    \/ PingsIn
    \/ PongsIn
    \/ SignalDrops
    \/ SignalReconnects
    \/ SignalTicks
    \/ SignalPongs
    \/ Destroys

SpecSignal == InitPeer /\ [][NextSignal]_vars

(***************************************************************************)
(* SpecFolders: the folder tree of catalogs of up to MaxFolderPhotos photos *)
(***************************************************************************)
MaxFolderPhotos == 3

FolderRoots == {"/r", "/q"}
FolderPaths == {<<>>, <<"a">>, <<"a", "b">>, <<"a", "b", "c">>, <<"x">>}

FolderScans ==
    \E rootPath \in FolderRoots, folderPath \in FolderPaths :
        /\ Len(folderPhotos) < MaxFolderPhotos
        /\ PhotoScanned(rootPath, folderPath)
FolderRequests == FoldersRequested

NextFolders ==
    \/ FolderScans
    \/ FolderRequests

SpecFolders == InitPeer /\ [][NextFolders]_vars

(***************************************************************************)
(* SpecCache: compressImage calls while the photos are rescanned           *)
(***************************************************************************)
MaxCompressions == 3
MaxCacheRescans == 1

\* a worker job or an HTTP handler asks for a rendition of a catalog photo
CompressCalls ==
    \E k \in CacheKeys :
        /\ Len(compressions) < MaxCompressions
        /\ getPhoto(k[1]) # NoPhoto
        /\ compressImageCalled(getPhoto(k[1]).path, k[2], k[3], k[1])
CacheReads == \E i \in 1..Len(compressions) : ReadFileSettles(i)
SharpEnds == \E i \in 1..Len(compressions) : SharpDone(i)
CacheWriteOpens == \E i \in 1..Len(compressions) : WriteFileOpens(i)
CacheWriteEnds == \E i \in 1..Len(compressions) : WriteFileSettles(i)
ManualRescans ==
    /\ RescansBegun < MaxCacheRescans
    /\ RescanRequested
Unlinks == \E k \in CacheKeys : UnlinkNext(k)
ManualScans == \E found \in Listings : RescanScans(found)
ManualResponds == RescanResponds
TimerScans ==
    /\ RescansBegun < MaxCacheRescans
    /\ \E found \in Listings : ScanStart("timer", TRUE, found)
TimerScanEnds == ScanEnd("timer")

NextCache ==
    \/ CompressCalls
    \/ CacheReads
    \/ SharpEnds
    \/ CacheWriteOpens
    \/ CacheWriteEnds
    \/ ManualRescans
    \/ Unlinks
    \/ ManualScans
    \/ ManualResponds
    \/ TimerScans
    \/ TimerScanEnds
    \/ ScanPushes

SpecCache == InitWorker /\ [][NextCache]_vars



(***************************************************************************)
(* Claims about the Transfer Worker                                        *)
(***************************************************************************)
JobIds == DOMAIN jobs
Settled(j) == jobs[j].state \in {"resolved", "rejected"}

\* C1: the worker is single-flight - in every reachable state at most one
\* job is executing, and no job is in its running state while another is
C1_SingleFlight ==
    /\ Cardinality(running) <= 1
    /\ Cardinality({j \in JobIds : jobs[j].state = "running"}) <= 1
    /\ \A r \in running : jobs[r.job.id].state = "running"

\* two sessions contend: one job executes while another session's job waits
C1_Witness ==
    \E r \in running :
        /\ Len(queue) > 0
        /\ queue[1].socket # r.job.socket

\* C2: jobs are served FIFO - of two jobs passed to queueJob (job ids count
\* the calls), the earlier one starts first and has settled before the later
\* one starts, whatever their types and target sessions
C2_Fifo ==
    \A i, j \in JobIds :
        (i < j /\ jobs[j].starts > 0) =>
            /\ jobs[i].settles > 0
            /\ jobs[i].startOrd < jobs[j].startOrd
            /\ jobs[j].settles > 0 => jobs[i].settleOrd < jobs[j].settleOrd

\* a job was enqueued behind another waiting job of a different session,
\* and both have run and settled
C2_Witness ==
    \E j \in JobIds :
        /\ jobs[j].enqLen >= 1
        /\ Settled(j)
        /\ jobs[j - 1].job.socket # jobs[j].job.socket

\* whether processing the job throws: its photo is not in the catalog, the
\* source file is gone, or (compressed jobs) the image cannot be decoded
JobThrows(job) ==
    \/ \A i \in 1..Len(photosDatabase) : photosDatabase[i].id # job.photoId
    \/ \E i \in 1..Len(photosDatabase) :
          /\ photosDatabase[i].id = job.photoId
          /\ \/ photosDatabase[i].path \notin DOMAIN diskFiles
             \/ job.type = "compressed" /\ photosDatabase[i].path \in undecodable

\* C3: a job whose processing throws rejects its own promise and no other
\* (a job is rejected exactly when its own processing throws), no job is
\* executed or settled more than once, a settled job is neither queued nor
\* running again, and jobs waiting behind a failed job are still executed:
\* a nonempty queue always has a job executing ahead of it
C3_FailureIsolated ==
    /\ \A j \in JobIds :
          /\ jobs[j].starts <= 1
          /\ jobs[j].settles <= 1
          /\ jobs[j].state = "rejected" => JobThrows(jobs[j].job)
          /\ jobs[j].state = "resolved" => ~JobThrows(jobs[j].job)
          /\ Settled(j) =>
                /\ \A k \in 1..Len(queue) : queue[k].id # j
                /\ \A r \in running : r.job.id # j
    /\ queue # <<>> => running # {}

\* a job was rejected while another waited behind it, and that one ran to
\* completion
C3_Witness ==
    \E i, j \in JobIds :
        /\ i < j
        /\ jobs[i].state = "rejected"
        /\ jobs[j].enqBusy
        /\ jobs[j].startOrd = jobs[i].startOrd + 1
        /\ jobs[j].state = "resolved"

\* C4 (under FairSpecLive): every job passed to queueJob eventually has its
\* promise settled, exactly once - whenever some job is unsettled, a state
\* follows in which every job passed so far has settled once, and a settled
\* job stays settled and is never settled again
Unsettled == \E j \in JobIds : ~Settled(j)
AllSettledOnce == \A j \in JobIds : Settled(j) /\ jobs[j].settles = 1

C4_EverySettles ==
    /\ Unsettled ~> AllSettledOnce
    /\ [][\A j \in JobIds : Settled(j) => (jobs'[j].settles = 1 /\ jobs'[j].state = jobs[j].state)]_vars

\* a job enqueued by the continuation of the worker's last job, when the
\* worker had just gone idle, has settled
C4_Witness ==
    \E j \in JobIds :
        /\ j > 1
        /\ ~jobs[j].enqBusy
        /\ jobs[j].job.batch = jobs[j - 1].job.batch
        /\ jobs[j].startOrd = jobs[j - 1].startOrd + 1
        /\ Settled(j)

\* the jobs of session s that have sent their events, oldest first
RECURSIVE DeliveredJobs(_, _)
DeliveredJobs(s, ord) ==
    IF ord > startCnt THEN <<>>
    ELSE LET hit == {j \in JobIds : /\ jobs[j].startOrd = ord
                                    /\ jobs[j].job.socket = s
                                    /\ ~JobThrows(jobs[j].job)
                                    /\ \/ jobs[j].state = "resolved"
                                       \/ \E r \in running : r.job.id = j /\ r.phase = "returned"}
         IN (IF hit = {} THEN <<>> ELSE <<jobs[CHOOSE j \in hit : TRUE].job>>)
            \o DeliveredJobs(s, ord + 1)

\* the events a job produces when nothing disturbs it
RECURSIVE UndisturbedEvents(_)
UndisturbedEvents(js) ==
    IF js = <<>> THEN <<>>
    ELSE LET job == Head(js)
             photo == getPhoto(job.photoId)
         IN (IF job.type = "compressed"
             THEN compressedEvents(job.photoId,
                      sharpResize(diskFiles[photo.path], job.quality, job.maxDimension))
             ELSE originalEvents(photo, diskFiles[photo.path]))
            \o UndisturbedEvents(Tail(js))

PhotoEvents(log) == SelectSeq(log, LAMBDA e : e.type \in {"photo:data", "photo:complete"})

\* C5: a disconnect does not stall the worker - whenever jobs wait, one is
\* executing, also once a target session is gone - and every session that is
\* still connected has been sent, for its jobs, exactly the events those jobs
\* produce when no session disconnects
C5_DisconnectIsolated ==
    /\ queue # <<>> => \E r \in running : jobs[r.job.id].state = "running"
    /\ \A j \in JobIds : (jobs[j].starts = 0) => (\E k \in 1..Len(queue) : queue[k].id = j)
    /\ \A s \in Sockets :
          sockets[s].status = "connected" =>
              PhotoEvents(sockets[s].log) = UndisturbedEvents(DeliveredJobs(s, 1))

\* a session disconnected in the middle of its job; the job of another
\* session that waited behind it started next and completed with its events
C5_Witness ==
    \E s, t \in Sockets : \E i, j \in JobIds :
        /\ s # t
        /\ sockets[s].status = "disconnected"
        /\ i \in sockets[s].closedDuring
        /\ jobs[i].job.socket = s
        /\ jobs[j].job.socket = t
        /\ jobs[j].enqBusy
        /\ jobs[j].startOrd = jobs[i].startOrd + 1
        /\ jobs[j].state = "resolved"
        /\ sockets[t].status = "connected"
        /\ PhotoEvents(sockets[t].log) # <<>>

\* C6: the checksum of every photo:data is the MD5 of the buffer that event
\* delivers and its totalSize is that buffer's length; every photo:complete
\* follows the photo:data of the same photo and repeats its checksum and
\* totalSize
C6_ChecksumMatches ==
    \A s \in Sockets : \A k \in 1..Len(sockets[s].log) :
        LET e == sockets[s].log[k] IN
        /\ e.type = "photo:data" =>
              /\ e.checksum = md5(e.chunk)
              /\ e.totalSize = Len(e.chunk)
        /\ e.type = "photo:complete" =>
              /\ k > 1
              /\ sockets[s].log[k - 1].type = "photo:data"
              /\ sockets[s].log[k - 1].photoId = e.photoId
              /\ sockets[s].log[k - 1].checksum = e.checksum
              /\ sockets[s].log[k - 1].totalSize = e.totalSize

\* a client has received a completed compressed photo and a completed
\* original photo
C6_Witness ==
    \E s, t \in Sockets :
        /\ \E k \in 1..Len(sockets[s].log) :
              /\ sockets[s].log[k].type = "photo:data"
              /\ sockets[s].log[k].mimeType = "image/jpeg"
              /\ Len(sockets[s].log[k].chunk) = 2
        /\ \E k \in 1..Len(sockets[t].log) :
              /\ sockets[t].log[k].type = "photo:complete"
              /\ sockets[t].log[k].totalSize = 3

(***************************************************************************)
(* Claims C7 - C10: authentication and revocation                          *)
(***************************************************************************)
Attempted(s) == sockets[s].attempt.ip # NULL

\* the token is missing, of wrong length or not hexadecimal
Malformed(tokenValue) ==
    tokenValue.kind # "string" \/ tokenValue.len # 64 \/ ~tokenValue.hex

\* what the token list `tokens` says at time t about a well-formed token
StatusIn(tokens, key, t) ==
    LET tok == findToken(tokens, key)
    IN IF tok = NoToken THEN "unknown"
       ELSE IF ~tok.active THEN "revoked"
       ELSE IF tok.expiresAt < t THEN "expired"
       ELSE "valid"

\* the attempt behind socket s was rate-limited, or its token was malformed,
\* or the token list validation consulted had it unknown, revoked or expired
BadAttempt(s) ==
    LET at == sockets[s].attempt
    IN \/ at.limited
       \/ Malformed(at.token)
       \/ /\ at.view.looked
          /\ StatusIn(at.view.tokens, at.token.key, at.at) # "valid"

NoSession(s) ==
    /\ sockets[s].status = "rejected"
    /\ sockets[s].data = NoData
    /\ sockets[s].rooms = {}
    /\ ~sockets[s].handlers
    /\ sockets[s].served = 0
    /\ sockets[s].log = <<>>
    /\ \A b \in 1..Len(batches) : batches[b].s # s

\* C7: an authentication attempt that is rate-limited, or whose token is
\* missing, of wrong length, non-hex, unknown, revoked or expired, never
\* creates a session: no session data is attached, the connection handler
\* does not run (no room joined, no handler registered) and no manifest or
\* batch handler is invoked for that connection
C7_NoSessionForBadAttempt ==
    \A s \in Sockets : (Attempted(s) /\ BadAttempt(s)) => NoSession(s)

\* an address over its limit presented the valid token tA and was turned
\* away, and before that every kind of bad token had been turned away too
C7_Witness ==
    /\ sockets["s1"].attempt.limited
    /\ sockets["s1"].attempt.token = HexToken("tA")
    /\ sockets["s1"].status = "rejected"
    /\ sockets["s1"].data = NoData

\* the reason the priority order InvalidFormat, TokenNotFound, TokenRevoked,
\* TokenExpired gives an attempt that passed the rate limit
ExpectedReason(s) ==
    LET at == sockets[s].attempt
        st == StatusIn(at.view.tokens, at.token.key, at.at)
    IN IF Malformed(at.token) THEN "INVALID_FORMAT"
       ELSE IF st = "unknown" THEN "TOKEN_NOT_FOUND"
       ELSE IF st = "revoked" THEN "TOKEN_REVOKED"
       ELSE IF st = "expired" THEN "TOKEN_EXPIRED"
       ELSE ""

\* the part of C8 that is about tokens that reach the store lookup: they are
\* rejected with the first applicable of TokenNotFound, TokenRevoked,
\* TokenExpired, and a malformed token is rejected without a lookup
C8_LookupPriority ==
    \A s \in Sockets :
        (Attempted(s) /\ ~sockets[s].attempt.limited) =>
            IF Malformed(sockets[s].attempt.token)
            THEN sockets[s].status = "rejected" /\ ~sockets[s].attempt.view.looked
            ELSE sockets[s].attempt.view.looked /\ sockets[s].error = ExpectedReason(s)

\* C8: a rejected credential is reported with the first applicable reason
\* in the order InvalidFormat, TokenNotFound, TokenRevoked, TokenExpired; a
\* malformed token is rejected as InvalidFormat before any store lookup, and
\* the handshake rejection carries exactly that reason
C8_ReasonPriority ==
    \A s \in Sockets :
        (Attempted(s) /\ ~sockets[s].attempt.limited) =>
            /\ sockets[s].error = ExpectedReason(s)
            /\ Malformed(sockets[s].attempt.token) => ~sockets[s].attempt.view.looked

\* a token that is both revoked and expired was rejected as revoked
C8_Witness ==
    /\ sockets["s1"].attempt.token = HexToken("tX")
    /\ ~sockets["s1"].attempt.limited
    /\ sockets["s1"].error = "TOKEN_REVOKED"

Live(s) == sockets[s].status = "connected" /\ sockets[s].data.authenticated

\* the token of session s, as the token store of the main process has it
StoreStatus(s) == StatusIn(tokenStore, sockets[s].data.authToken.key, now)

\* session s is live and its token has been revoked or deleted
RevokedLive(s) == Live(s) /\ StoreStatus(s) \in {"revoked", "unknown"}

\* session s was sent auth:revoked and then disconnected by the server
Notified(s) ==
    /\ sockets[s].status = "disconnected"
    /\ sockets[s].forced # ""
    /\ sockets[s].log # <<>>
    /\ sockets[s].log[Len(sockets[s].log)].type = "auth:revoked"

ClientLeft(s) == sockets[s].status = "disconnected" /\ sockets[s].forced = ""

\* no change event is waiting, no sweep is running, the file is written
Quiescent == ~fileEvents /\ sweepTodo = {} /\ ~jsonFile.torn

\* the first half of C9: a live session whose token is revoked or deleted is
\* sent auth:revoked and disconnected by the server unless the client leaves
\* first, and it is gone when the check cycle the change started has ended
C9_RevokedSessionGoes ==
    /\ \A s \in Sockets : RevokedLive(s) ~> (Notified(s) \/ ClientLeft(s))
    /\ [](Quiescent => \A s \in Sockets : ~RevokedLive(s))

\* the second half of C9: the server force-disconnects a session only when
\* its token is no longer valid in the token store
C9_OthersStay ==
    [][\A s \in Sockets :
          (Live(s) /\ sockets'[s].forced # "") => StoreStatus(s) # "valid"]_vars

\* C9: after a token is revoked or deleted while a session authenticated
\* with it is live, that session receives auth:revoked and is forcibly
\* disconnected within one revocation-check cycle, with no client traffic
\* required; sessions of other, still-valid tokens stay connected
C9_RevokedOnlyDisconnected == C9_RevokedSessionGoes /\ C9_OthersStay

\* token tA was revoked; the sweep closed the session of tA, and it closed
\* the session of the untouched token tB as well
C9_Witness ==
    /\ Notified("s1")
    /\ sockets["s1"].data.authToken = HexToken("tA")
    /\ StatusIn(tokenStore, "tA", now) = "revoked"
    /\ Notified("s2")
    /\ sockets["s2"].data.authToken = HexToken("tB")
    /\ StatusIn(tokenStore, "tB", now) = "valid"

\* C10: revocation is never silent: a session the server force-disconnects
\* because its token no longer validates is first sent auth:revoked with the
\* reason validation gave, and the disconnect follows that emit with nothing
\* else sent to the session in between
C10_RevocationNotSilent ==
    [][\A s \in Sockets :
          (Live(s) /\ sockets'[s].status # "connected" /\ sockets'[s].forced # "") =>
              /\ sockets'[s].status = "disconnected"
              /\ sockets'[s].forced =
                     validateToken(sockets[s].data.authToken, Manager, jsonFile, now).reason
              /\ sockets'[s].forced \in {"TOKEN_NOT_FOUND", "TOKEN_REVOKED", "TOKEN_EXPIRED"}
              /\ sockets'[s].log =
                     Append(sockets[s].log,
                            [Ev("auth:revoked") EXCEPT !.code = sockets'[s].forced])]_vars

\* a session that had been served a manifest was sent auth:revoked with the
\* reason TOKEN_REVOKED and closed
C10_Witness ==
    /\ sockets["s1"].forced = "TOKEN_REVOKED"
    /\ sockets["s1"].status = "disconnected"
    /\ Len(sockets["s1"].log) = 2
    /\ sockets["s1"].log[1].type = "manifest"
    /\ sockets["s1"].log[2].type = "auth:revoked"

(***************************************************************************)
(* Claims C11 - C15: revalidation, cache window, rate limiting             *)
(***************************************************************************)
\* session s is live and its token no longer validates against the store
StaleLive(s) == Live(s) /\ StoreStatus(s) # "valid"

\* C11: live sessions are revalidated periodically: a session whose token
\* stops validating while it is connected, also one whose expiresAt passes
\* with no change to the token store, is eventually sent auth:revoked and
\* disconnected
C11_StaleSessionGoes ==
    \A s \in Sockets : StaleLive(s) ~> (Notified(s) \/ ClientLeft(s))

\* token tB has expired under a live session, the store was never changed,
\* and nothing is left for the server to do
C11_Witness ==
    /\ Live("s2")
    /\ StoreStatus("s2") = "expired"
    /\ tokenStore = InitTokens
    /\ Quiescent

\* the token store held token k as active at some instant of [t - CACHE_TTL, t]
HeldActiveWithin(k, t) ==
    \/ findToken(tokenStore, k).active
    \/ activeUntil[k] >= t - CACHE_TTL

\* what validateToken answers for token k, called now
ValidationNow(k) == validateToken(HexToken(k), Manager, jsonFile, now)

\* what validateToken answers for token k, called now right after refreshCache
ValidationAfterRefresh(k) ==
    validateToken(HexToken(k), refreshCache(Manager, jsonFile, now), jsonFile, now)

\* the first half of C12: validateToken accepts a token at time t only if the
\* store held it as active at some instant of [t - CACHE_TTL, t] and its
\* expiresAt is not earlier than t
C12_AcceptWithinWindow ==
    \A k \in TokenKeys \cup {"tU"} :
        ValidationNow(k).valid =>
            /\ k \in TokenKeys
            /\ HeldActiveWithin(k, now)
            /\ ValidationNow(k).token.expiresAt >= now

\* the second half of C12: after refreshCache the next validation reflects
\* the current contents of the store
C12_RefreshReflectsStore ==
    \A k \in TokenKeys \cup {"tU"} :
        /\ ValidationAfterRefresh(k).view = View(tokenStore)
        /\ ValidationAfterRefresh(k).valid <=> (StatusIn(tokenStore, k, now) = "valid")

\* C12: the stale-credential window is bounded by the cache TTL:
\* validateToken at time t accepts a token only if the store held it as
\* active at some instant of [t - CACHE_TTL, t] and its expiresAt is not
\* earlier than t; after refreshCache the next validation reflects the
\* store's current contents
C12_StaleWindowBounded == C12_AcceptWithinWindow /\ C12_RefreshReflectsStore

\* token tA was revoked a few seconds ago and the cached list still has it
\* as active: validateToken accepts it
C12_Witness ==
    /\ StatusIn(tokenStore, "tA", now) = "revoked"
    /\ activeUntil["tA"] < now
    /\ ValidationNow("tA").valid

\* the part of C13 that holds at every instant but the last of a window
C13_LimitedRetryNotNegative ==
    \A s \in Sockets :
        /\ sockets[s].attempt.limited =>
              /\ sockets[s].error = "RATE_LIMIT_EXCEEDED"
              /\ sockets[s].retryAfter >= 0
        /\ (sockets[s].attempt.limited /\ sockets[s].retryAfter = 0) =>
              sockets[s].attempt.at = authAttempts[sockets[s].attempt.ip].resetAt

\* C13: more than MAX_AUTH_ATTEMPTS attempts from one address within the
\* window yield RateLimitExceeded on every attempt beyond the maximum, and
\* the retry-after value of each such rejection is strictly greater than 0
C13_LimitedWithPositiveRetry ==
    /\ authAttempts["10.0.0.1"].count > MAX_AUTH_ATTEMPTS =>
          /\ sockets["s1"].attempt.limited
          /\ sockets["s1"].error = "RATE_LIMIT_EXCEEDED"
    /\ \A s \in Sockets : sockets[s].attempt.limited => sockets[s].retryAfter > 0

\* the eleventh attempt of a window was rejected, at the very second the
\* window ends
C13_Witness ==
    /\ authAttempts["10.0.0.1"].count = MAX_AUTH_ATTEMPTS + 1
    /\ sockets["s1"].attempt.limited
    /\ sockets["s1"].error = "RATE_LIMIT_EXCEEDED"
    /\ now = authAttempts["10.0.0.1"].resetAt

\* the attempts of address ip that passed the rate limit at a time in
\* [from, from + AUTH_WINDOW)
RECURSIVE PassesIn(_, _)
PassesIn(log, from) ==
    IF log = <<>> THEN 0
    ELSE (IF from <= Head(log).at /\ Head(log).at < from + AUTH_WINDOW
          THEN Head(log).n ELSE 0) + PassesIn(Tail(log), from)

\* what the fixed windows of checkRateLimit do guarantee
C14_AtMostTwiceTheLimit ==
    \A ip \in IPs : \A i \in 1..Len(passLog[ip]) :
        PassesIn(passLog[ip], passLog[ip][i].at) <= 2 * MAX_AUTH_ATTEMPTS

\* C14: rate limiting is a sliding window per address: for every address and
\* every interval of length AUTH_WINDOW at most MAX_AUTH_ATTEMPTS attempts
\* from that address pass the rate-limit check
C14_SlidingWindow ==
    \A ip \in IPs : \A i \in 1..Len(passLog[ip]) :
        PassesIn(passLog[ip], passLog[ip][i].at) <= MAX_AUTH_ATTEMPTS

\* an address used up a window and has begun the next one
C14_Witness ==
    /\ Len(passLog["10.0.0.1"]) >= 2
    /\ authAttempts["10.0.0.1"].count = 1
    /\ authAttempts["10.0.0.1"].resetAt = now + AUTH_WINDOW
    /\ PassesIn(passLog["10.0.0.1"], StartTime) = MAX_AUTH_ATTEMPTS

\* C15: the rate-limit check runs before any credential check and does not
\* depend on the credential: an attempt from an address over its limit is
\* rejected with RateLimitExceeded also when it carries a valid token, and
\* no token-store lookup is made for it
C15_RateLimitFirst ==
    /\ authAttempts["10.0.0.1"].count > MAX_AUTH_ATTEMPTS => sockets["s1"].attempt.limited
    /\ \A s \in Sockets :
          sockets[s].attempt.limited =>
              /\ sockets[s].status = "rejected"
              /\ sockets[s].error = "RATE_LIMIT_EXCEEDED"
              /\ ~sockets[s].attempt.view.looked
              /\ sockets[s].data = NoData

\* an address over its limit presented token tA, which the store holds as
\* valid, before any token had ever been looked up, and was turned away
C15_Witness ==
    /\ sockets["s1"].attempt.limited
    /\ sockets["s1"].attempt.token = HexToken("tA")
    /\ StatusIn(tokenStore, "tA", now) = "valid"
    /\ sockets["s1"].error = "RATE_LIMIT_EXCEEDED"
    /\ cache.isNull

(***************************************************************************)
(* Claims C16 - C20: manifests, rescans, request validation                *)
(***************************************************************************)
\* other places the same photo files could live in
OtherRoots == {"/mnt/a", "/home/u/pics"}

\* the catalog the scan would have built had the files lived under root:
\* it differs in the records' path and rootPath and in nothing else
Repath(photos, root) ==
    [i \in 1..Len(photos) |->
        [photos[i] EXCEPT !.path = root \o "/" \o photos[i].filename, !.rootPath = root]]

PathFields == {"path", "rootPath"}
\* the fields of a manifest entry that hold text
TextFields == {"id", "filename", "name", "created"}

\* the paths and root paths the catalog or any re-rooted catalog holds
PathValues(photos) ==
    UNION {{c[i].path, c[i].rootPath} :
              c \in {photos} \cup {Repath(photos, r) : r \in OtherRoots}, i \in 1..Len(photos)}

LastOf(seq) == seq[Len(seq)]

\* C16: no manifest sent on either transport (the streaming acknowledgment,
\* the P2P manifest message) contains a record's absolute path or root
\* path - whenever a manifest is sent it has no path field, none of its
\* values is a path of the catalog, and it is the manifest that would have
\* been sent had the catalog differed in its path fields only
C16_ManifestsHidePaths ==
    [][ /\ \A s \in Sockets :
              (sockets'[s].served # sockets[s].served) =>
                 LET ack == LastOf(sockets'[s].log)
                 IN /\ ack.type = "manifest"
                    /\ \A root \in OtherRoots : ack = manifestAck(Repath(database, root))
                    /\ \A i \in 1..Len(ack.photos) :
                          /\ DOMAIN ack.photos[i] \cap PathFields = {}
                          /\ \A f \in DOMAIN ack.photos[i] \cap TextFields :
                                ack.photos[i][f] \notin PathValues(database)
        /\ (peerInbox' # peerInbox) =>
              /\ \A root \in OtherRoots :
                    peerInbox' = sendManifestMessage(Repath(database, root))
              /\ \A i \in 1..Len(peerInbox'.photos) :
                    /\ DOMAIN peerInbox'.photos[i] \cap PathFields = {}
                    /\ \A f \in DOMAIN peerInbox'.photos[i] \cap TextFields :
                          peerInbox'.photos[i][f] \notin PathValues(database)
      ]_vars

\* after a rescan, both transports have delivered a manifest with entries
C16_Witness ==
    /\ rescans > 0
    /\ peerInbox.photos # <<>>
    /\ \E i \in 1..Len(sockets["s1"].log) :
          /\ sockets["s1"].log[i].type = "manifest"
          /\ sockets["s1"].log[i].photos # <<>>

\* the catalogs a scan that ran alone can leave behind
KnownCatalogs == {<<>>, photosDatabase} \cup Listings

IdSet(photos) == {photos[i].id : i \in 1..Len(photos)}

NoScanRunning == \A k \in ScanIds : scans[k].pc = "idle"

Reordered(photos, perm) == [i \in 1..Len(photos) |-> photos[perm[i]]]

\* C17, first and second part: a manifest request answers from the catalog
\* and leaves it alone, so that a repeated request with no rescan in between
\* gets the same hash, and any reordering of the catalog has the same hash
C17_RepeatableAndOrderFree ==
    [][ /\ \A s \in Sockets :
              (sockets'[s].served # sockets[s].served) =>
                 /\ database' = database
                 /\ sockets[s].status = "connected" =>
                       LastOf(sockets'[s].log) = manifestAck(database')
        /\ \A perm \in Permutations(1..Len(database)) :
              calculateHash(Reordered(database, perm)) = calculateHash(database)
      ]_vars

\* C17, third part: catalogs of different counts have different hashes, so
\* a manifest after a rescan that changed the count differs in both
C17_CountChangesHash ==
    \A c \in KnownCatalogs :
        Len(c) # Len(database) =>
            /\ manifestAck(c).a # manifestAck(database).a
            /\ manifestAck(c).checksum # manifestAck(database).checksum

\* C17: the manifest content hash depends only on the set of catalog ids -
\* once no rescan is running, the hash a manifest request reports is the
\* hash of every catalog that holds the same set of ids
C17_HashOfIdSet ==
    NoScanRunning =>
        \A c \in KnownCatalogs :
            IdSet(c) = IdSet(database) =>
                manifestAck(database).checksum = manifestAck(c).checksum

\* with no rescan running, a session was sent the manifest of a catalog
\* that lists an id twice
C17_Witness ==
    /\ NoScanRunning
    /\ Cardinality(IdSet(database)) < Len(database)
    /\ sockets["s1"].log # <<>>
    /\ LastOf(sockets["s1"].log) = manifestAck(database)

\* a step in which an invocation of scanPhotos returns: from after its loop
\* over the paths, or at once because no path is enabled
RescanEnds ==
    \/ \E k \in ScanIds : scans[k].pc = "scanning" /\ scans'[k].pc = "idle"
    \/ rescans' # rescans /\ scans' = scans

Authenticated(s) ==
    /\ sockets[s].status = "connected"
    /\ "authenticated" \in sockets[s].rooms

\* C18: whenever a rescan ends with a photo count different from the count
\* at the end of the previous rescan, a manifest-changed event carrying that
\* previous count and the current count is sent to every session that is
\* authenticated at that moment, however the rescan ends
C18_ChangeIsBroadcast ==
    [][ (RescanEnds /\ Len(database') # lastEndCount) =>
           \A s \in Sockets :
               Authenticated(s) =>
                   sockets'[s].log =
                       Append(sockets[s].log, manifestUpdated(lastEndCount, Len(database')))
      ]_vars

\* what does hold: a rescan that ends after its loop over the paths with a
\* count different from previousPhotoCount sends that event, with
\* previousPhotoCount in it, to every authenticated session and to no other
C18_LoopEndBroadcasts ==
    [][ \A k \in ScanIds :
           (scans[k].pc = "scanning" /\ scans'[k].pc = "idle") =>
              /\ previousPhotoCount' = Len(database)
              /\ \A s \in Sockets :
                    sockets'[s].log =
                       IF Authenticated(s) /\ Len(database) # previousPhotoCount
                       THEN Append(sockets[s].log,
                                   manifestUpdated(previousPhotoCount, Len(database)))
                       ELSE sockets[s].log
      ]_vars

\* a rescan found no enabled path: the catalog is empty, the count the
\* server remembers is still the old one, and the sessions, still
\* authenticated, were sent nothing
C18_Witness ==
    /\ rescans > 0
    /\ NoScanRunning
    /\ database = <<>>
    /\ lastEndCount = 0
    /\ previousPhotoCount # 0
    /\ \A s \in Sockets : Authenticated(s) /\ sockets[s].log = <<>>

\* C19: catalog replacement on rescan is atomic for readers - a manifest
\* request served while a rescan is in progress reports either the complete
\* catalog that rescan found when it started or the complete catalog it is
\* building, never a partially rebuilt one
C19_ReadersSeeWholeCatalog ==
    [][ \A s \in Sockets, k \in ScanIds :
           (/\ sockets'[s].served # sockets[s].served
            /\ sockets[s].status = "connected"
            /\ scans[k].pc = "scanning") =>
               \/ LastOf(sockets'[s].log) = manifestAck(scans[k].pre)
               \/ LastOf(sockets'[s].log) = manifestAck(scans[k].post)
      ]_vars

\* the same for photo lookups: while a rescan is in progress, a photo of the
\* catalog the rescan found or of the one it is building can be looked up
C19_LookupsSeeWholeCatalog ==
    \A k \in ScanIds :
        scans[k].pc = "scanning" =>
            \/ \A i \in 1..Len(scans[k].pre) : getPhoto(scans[k].pre[i].id) # NoPhoto
            \/ \A i \in 1..Len(scans[k].post) : getPhoto(scans[k].post[i].id) # NoPhoto

\* while a single rescan of a directory with two photos was in progress, a
\* session was sent a manifest with one entry
C19_Witness ==
    /\ rescans = 1
    /\ \E k \in ScanIds :
          /\ scans[k].pc = "scanning"
          /\ Len(scans[k].pre) = Len(photosDatabase)
          /\ Len(scans[k].post) > 1
          /\ Len(database) = 1
          /\ sockets["s1"].log # <<>>
          /\ LastOf(sockets["s1"].log) = manifestAck(database)

\* the error codes the validation rules give a request: InvalidRequest for
\* photoIds that is no array or is empty, BatchTooLarge for more than
\* MAX_BATCH_SIZE ids, and for a photos:request-batch InvalidQuality for a
\* quality outside 1..100 and InvalidDimension for a maxDimension outside
\* 1..10000
FailureCodes(rec) ==
    LET d == rec.request
        n == Len(d.photoIds) + d.extra
    IN (IF ~d.isArray \/ n = 0 THEN {"INVALID_REQUEST"} ELSE {})
       \cup (IF d.isArray /\ n > MAX_BATCH_SIZE THEN {"BATCH_TOO_LARGE"} ELSE {})
       \cup (IF rec.kind = "compressed" /\ d.quality \notin 1..100
             THEN {"INVALID_QUALITY"} ELSE {})
       \cup (IF rec.kind = "compressed" /\ d.maxDimension \notin 1..10000
             THEN {"INVALID_DIMENSION"} ELSE {})

\* C20: a batch request that fails validation is answered with the error
\* code of a rule it breaks and causes no partial processing - the handler's
\* step sends that acknowledgment and nothing else (no BatchStarted or
\* OriginalsStarted event), leaves the worker and its queue as they were,
\* and the request never gets a job, a continuation or a per-photo event
C20_InvalidRequestRejected ==
    [][ /\ Len(batches') > Len(batches) =>
              LET rec == batches'[Len(batches')]
              IN FailureCodes(rec) # {} =>
                    /\ \E code \in FailureCodes(rec) :
                          sockets' = [sockets EXCEPT ![rec.sock].log = Append(@, Ack(code))]
                    /\ UNCHANGED <<queue, busy, running, jobs, startCnt, settleCnt>>
        /\ \A b \in 1..Len(batches') :
              FailureCodes(batches'[b]) # {} =>
                 /\ batches'[b].done
                 /\ batches'[b].job = 0
                 /\ batches'[b].completedCount = 0
                 /\ \A j \in 1..Len(jobs') : jobs'[j].job.batch # b
      ]_vars

\* a session was refused a request for its quality, and the request it sent
\* next was processed to the end
C20_Witness ==
    /\ Len(batches) = 2
    /\ batches[1].sock = batches[2].sock
    /\ batches[1].error = "INVALID_QUALITY"
    /\ sockets[batches[1].sock].log[1] = Ack("INVALID_QUALITY")
    /\ FailureCodes(batches[2]) = {}
    /\ batches[2].done
    /\ Len(jobs) = 1

(***************************************************************************)
(* Claims C21 - C23: failures and disconnects in a batch                   *)
(***************************************************************************)
RECURSIVE CountEvents(_, _, _)
\* how many events of a type the log holds for a photo id
CountEvents(log, type, id) ==
    IF log = <<>> THEN 0
    ELSE (IF Head(log).type = type /\ Head(log).photoId = id THEN 1 ELSE 0)
         + CountEvents(Tail(log), type, id)

BatchesOf(s) == {b \in 1..Len(batches) : batches[b].sock = s}

\* the places of a session's batches that hold the id, by whether the job
\* for it fails
PlacesOf(s, id, failing) ==
    UNION {{<<b, i>> : i \in {k \in 1..Len(batches[b].ids) :
                                  /\ batches[b].ids[k] = id
                                  /\ JobThrows(NewJob(0, batches[b].kind, id, 0, 0, s, b))
                                        = failing}} :
           b \in BatchesOf(s)}

\* what the handler of a batch sent in a step
SentTo(s) == SubSeq(sockets'[s].log, Len(sockets[s].log) + 1, Len(sockets'[s].log))

\* C21: in a compressed batch an id whose job fails (id missing from the
\* catalog, source file missing, resampling failure) produces exactly one
\* PhotoError for that id and does not abort the batch - the handler, when
\* it resumes after a job, sends one PhotoError for the id if the job failed
\* and none otherwise, then goes on to the next id or, after the last one,
\* acknowledges success; and once the batches of a connected session are
\* done, it has one PhotoError per failing id, one completion per other id
\* and one success acknowledgment per batch
C21_FailureDoesNotAbort ==
    /\ [][ \A b \in 1..Len(batches) :
              (batches[b].kind = "compressed" /\ batches'[b] # batches[b]) =>
                 LET rec == batches[b]
                     s == rec.sock
                     id == rec.ids[rec.pos]
                     failed == jobs[rec.job].state = "rejected"
                     errors == SelectSeq(SentTo(s), LAMBDA e : e.type = "photo:error")
                 IN /\ failed = JobThrows(jobs[rec.job].job)
                    /\ sockets[s].status = "connected" =>
                          errors = IF failed THEN <<PhotoError(id, "PROCESSING_FAILED")>>
                                   ELSE <<>>
                    /\ rec.pos < Len(rec.ids) =>
                          /\ ~batches'[b].done
                          /\ batches'[b].pos = rec.pos + 1
                          /\ Len(jobs') = Len(jobs) + 1
                          /\ jobs'[Len(jobs')].job.photoId = rec.ids[rec.pos + 1]
                          /\ jobs'[Len(jobs')].job.batch = b
                    /\ rec.pos = Len(rec.ids) =>
                          /\ batches'[b].done
                          /\ sockets[s].status = "connected" =>
                                LastOf(SentTo(s)) = Ack("success")
          ]_vars
    /\ [](\A s \in Sockets :
            (/\ sockets[s].status = "connected"
             /\ \A b \in BatchesOf(s) : batches[b].kind = "compressed" /\ batches[b].done) =>
                /\ \A id \in PhotoIds :
                      /\ CountEvents(sockets[s].log, "photo:error", id)
                            = Cardinality(PlacesOf(s, id, TRUE))
                      /\ CountEvents(sockets[s].log, "photo:complete", id)
                            = Cardinality(PlacesOf(s, id, FALSE))
                /\ CountEvents(sockets[s].log, "ack", "") = Cardinality(BatchesOf(s))
                /\ \A i \in 1..Len(sockets[s].log) :
                      sockets[s].log[i].type = "ack" => sockets[s].log[i].code = "success")

\* a connected session's compressed batch whose first id failed in
\* resampling is done: one PhotoError for that id, the other id delivered,
\* success acknowledged
C21_Witness ==
    \E b \in 1..Len(batches) :
        LET s == batches[b].sock
        IN /\ batches[b].kind = "compressed"
           /\ batches[b].done
           /\ batches[b].ids = <<"pBad", "pOk">>
           /\ sockets[s].status = "connected"
           /\ CountEvents(sockets[s].log, "photo:error", "pBad") = 1
           /\ CountEvents(sockets[s].log, "photo:complete", "pOk") = 1
           /\ LastOf(sockets[s].log) = Ack("success")

InCatalog(id) == \E i \in 1..Len(database) : database[i].id = id

\* valid batch-original requests whose handler has run to its end by the
\* end of this step
FinishingOriginals(s) ==
    {b \in 1..Len(batches') :
        /\ batches'[b].sock = s
        /\ batches'[b].kind = "original"
        /\ batches'[b].error = ""
        /\ batches'[b].done
        /\ (b > Len(batches) \/ ~batches[b].done)}

\* C22: in a batch-original request, every requested id absent from the
\* catalog is reported by exactly one PhotoNotFound error and is never
\* enqueued, every requested id present in the catalog is enqueued as an
\* original job regardless of the absent ones, and OriginalsStarted reports
\* found + notFound equal to the number of requested ids (an id listed
\* twice counts twice)
C22_AbsentReportedPresentQueued ==
    /\ [][ \A s \in Sockets :
              LET notFoundSent == SelectSeq(SentTo(s), LAMBDA e : e.code = "PHOTO_NOT_FOUND")
                  startedSent == SelectSeq(SentTo(s),
                                           LAMBDA e : e.type = "photos:originals-started")
                  new == Len(batches') > Len(batches)
                         /\ batches'[Len(batches')].sock = s
                         /\ batches'[Len(batches')].kind = "original"
                         /\ batches'[Len(batches')].error = ""
              IN /\ sockets[s].status = "connected" =>
                       /\ notFoundSent =
                             IF FinishingOriginals(s) = {} THEN <<>>
                             ELSE LET b == CHOOSE b \in FinishingOriginals(s) : TRUE
                                      ids == batches'[b].request.photoIds
                                  IN [i \in 1..Len(SelectSeq(ids, LAMBDA id : ~InCatalog(id))) |->
                                        PhotoError(SelectSeq(ids, LAMBDA id : ~InCatalog(id))[i],
                                                   "PHOTO_NOT_FOUND")]
                       /\ Len(startedSent) = IF new THEN 1 ELSE 0
                       /\ new =>
                             LET ids == batches'[Len(batches')].request.photoIds
                             IN /\ startedSent[1].a + startedSent[1].b = Len(ids)
                                /\ startedSent[1].a = Len(SelectSeq(ids, InCatalog))
                                /\ SentTo(s)[1] = startedSent[1]
          ]_vars
    /\ [](/\ \A j \in JobIds : jobs[j].job.type = "original" => InCatalog(jobs[j].job.photoId)
          /\ \A b \in 1..Len(batches) :
                (batches[b].kind = "original" /\ batches[b].error = "") =>
                   LET ids == batches[b].request.photoIds
                       present == SelectSeq(ids, InCatalog)
                       mine == SelectSeq(jobs, LAMBDA e : e.job.batch = b)
                   IN /\ Len(mine) <= Len(present)
                      /\ \A i \in 1..Len(mine) :
                            mine[i].job.photoId = present[i] /\ mine[i].job.type = "original"
                      /\ (Len(mine) < Len(present)) => ~batches[b].done
                      /\ batches[b].done => \A i \in 1..Len(mine) : Settled(mine[i].job.id))

\* a connected session asked for an absent id, a present one and the absent
\* one again: it was told found 1 and notFound 2, was sent the present photo
\* and then two PhotoNotFound errors and the success acknowledgment
C22_Witness ==
    \E b \in 1..Len(batches) :
        LET s == batches[b].sock
            log == sockets[s].log
        IN /\ batches[b].kind = "original"
           /\ batches[b].done
           /\ batches[b].request.photoIds = <<"pAbsent", "pOk", "pAbsent">>
           /\ sockets[s].status = "connected"
           /\ Cardinality(BatchesOf(s)) = 1
           /\ log[1].type = "photos:originals-started" /\ log[1].a = 1 /\ log[1].b = 2
           /\ CountEvents(log, "photo:complete", "pOk") = 1
           /\ CountEvents(log, "photo:error", "pAbsent") = 2
           /\ LastOf(log) = Ack("success")

\* the jobs of a session that were executing when it disconnected
CutOff(s) == {j \in sockets[s].closedDuring : jobs[j].job.socket = s}

\* C23: a session disconnect is the cancellation signal for that session's
\* transfers - the job that was in flight for the session when it
\* disconnected is aborted: it ends as failed, no completion marker is
\* delivered for it, it is not run again, and nothing is kept to be sent to
\* the session later
C23_DisconnectAborts ==
    \A s \in Sockets :
        sockets[s].status = "disconnected" =>
            \A j \in CutOff(s) :
                /\ jobs[j].starts = 1
                /\ Settled(j) => jobs[j].state = "rejected"
                /\ \A k \in 1..Len(queue) : queue[k].id # j

\* what does hold: a session that has disconnected is sent nothing more (no
\* data, no completion marker, no replay), and no job runs twice
C23_NothingAfterDisconnect ==
    [][ /\ \A s \in Sockets :
              sockets[s].status = "disconnected" => sockets'[s].log = sockets[s].log
        /\ \A j \in JobIds : jobs'[j].starts <= 1
      ]_vars

\* a session disconnected while its compression was running; the job ran
\* on and resolved, and the handler queued the next id of the batch for the
\* session that is gone
C23_Witness ==
    \E s \in Sockets : \E j \in CutOff(s) : \E k \in JobIds :
        /\ sockets[s].status = "disconnected"
        /\ jobs[j].state = "resolved"
        /\ k > j
        /\ jobs[k].job.socket = s
        /\ jobs[k].job.batch = jobs[j].job.batch
        /\ jobs[k].state = "resolved"

(***************************************************************************)
(* Claims about the P2P links                                              *)
(***************************************************************************)
\* where in a trace the manager did op to the link of clientId
TraceOf(tr, op, clientId) == {i \in 1..Len(tr) : tr[i] = Did(op, clientId)}

\* what a step added to the trace
NewTrace == SubSeq(peerTrace', Len(peerTrace) + 1, Len(peerTrace'))

\* C24: closePeerConnection stops the peer's heartbeat timer before it
\* destroys the link, then takes the peer out of the map and emits
\* peer-disconnected, once per peer; a further call for the same client (the
\* one from the link's own close event included) changes nothing and emits
\* nothing.
C24_CloseOnceAndIdempotent ==
    [][\A c \in ClientIds :
          LET destroys == TraceOf(NewTrace, "destroy", c)
              stops == TraceOf(NewTrace, "clearInterval", c)
              emits == TraceOf(NewTrace, "peer-disconnected", c)
          IN /\ destroys # {} =>
                  /\ peers[c].heartbeat =>
                        \E i \in stops : \A j \in destroys : i < j
                  /\ ~peers'[c].heartbeat
                  /\ \A d \in ClientIds \ {c} : peers'[d] = peers[d]
             /\ (peers[c].inMap /\ ~peers'[c].inMap) =>
                  /\ Cardinality(destroys) = 1
                  /\ Cardinality(emits) = 1
                  /\ \A j \in destroys, k \in emits : j < k
                  /\ ~peers'[c].heartbeat
             /\ Cardinality(TraceOf(peerTrace', "peer-disconnected", c)) <= 1
             /\ (peers[c].made /\ ~peers[c].inMap) =>
                  /\ peers'[c] = [peers[c] EXCEPT !.closeDue = FALSE]
                  /\ wire'[c] = wire[c]
                  /\ \A i \in 1..Len(NewTrace) : NewTrace[i].clientId # c
                  /\ Cardinality(TraceOf(peerTrace, "peer-disconnected", c)) = 1
    ]_vars

\* the manager has closed the first link while its heartbeat ran, the link's
\* close event has called closePeerConnection again, and the second link is
\* still up with its heartbeat
C24_Witness ==
    /\ peers["c1"].made /\ ~peers["c1"].inMap /\ ~peers["c1"].closeDue
    /\ TraceOf(peerTrace, "clearInterval", "c1") # {}
    /\ TraceOf(peerTrace, "destroy", "c1") # {}
    /\ Cardinality(TraceOf(peerTrace, "peer-disconnected", "c1")) = 1
    /\ peers["c2"].connected /\ peers["c2"].heartbeat

\* the frames of sendPhoto call t on the wire to clientId, in sending order
FramesOf(clientId, t) == SelectSeq(wire[clientId], LAMBDA f : f.xfer = t)

\* a buffer cut into consecutive pieces of chunkSize from offset on
RECURSIVE ChunksFrom(_, _, _)
ChunksFrom(buf, offset, t) ==
    IF offset >= Len(buf) THEN <<>>
    ELSE LET upto == Min(offset + chunkSize, Len(buf))
         IN << Frame("binary", "", upto - offset, SubSeq(buf, offset + 1, upto), t, offset) >>
            \o ChunksFrom(buf, offset + chunkSize, t)

\* photo-start with the size, the chunks, photo-complete with the size
WholeTransfer(t) ==
    LET tr == transfers[t]
        N == Len(tr.buf)
    IN << Frame("photo-start", tr.photoId, N, <<>>, t, 0) >>
       \o ChunksFrom(tr.buf, 0, t)
       \o << Frame("photo-complete", tr.photoId, N, <<>>, t, 0) >>

IsPrefix(a, b) == Len(a) <= Len(b) /\ a = SubSeq(b, 1, Len(a))

RECURSIVE SumSizes(_)
SumSizes(frames) ==
    IF frames = <<>> THEN 0 ELSE Head(frames).size + SumSizes(Tail(frames))

StaysConnected(clientId) == Usable(peers[clientId]) /\ ~peers[clientId].broken

\* C25: a request-photo that runs to its end on a link that stays connected
\* sends photo-start with size N, then the buffer as consecutive 64 KiB
\* chunks in offset order (only the last may be shorter) whose lengths sum to
\* N, then photo-complete with totalBytes N; no chunk comes before the
\* photo-start or after the photo-complete, and an empty buffer gives
\* photo-start immediately followed by photo-complete.
C25_StartChunksComplete ==
    \A t \in 1..Len(transfers) :
        LET tr == transfers[t]
            c == tr.clientId
            sent == FramesOf(c, t)
            chunks == SelectSeq(sent, LAMBDA f : f.type = "binary")
        IN /\ tr.pc \in {"pacing", "done", "aborted"} => IsPrefix(sent, WholeTransfer(t))
           /\ (tr.pc = "done" /\ StaysConnected(c)) =>
                 /\ sent = WholeTransfer(t)
                 /\ SumSizes(chunks) = Len(tr.buf)
                 /\ \A i \in 1..Len(chunks) :
                       /\ chunks[i].offset = (i - 1) * chunkSize
                       /\ i < Len(chunks) => chunks[i].size = chunkSize
                 /\ tr.buf = <<>> =>
                       \E i \in 1..(Len(wire[c]) - 1) :
                           /\ wire[c][i] = sent[1]
                           /\ wire[c][i + 1] = sent[2]
                           /\ sent[2].type = "photo-complete"

\* on a link that is still connected, a photo of three bytes has gone out in
\* a full and a short chunk and an empty one as start and complete alone
C25_Witness ==
    /\ StaysConnected("c1")
    /\ Len(transfers) = 2
    /\ \A t \in 1..2 : transfers[t].pc = "done"
    /\ transfers[1].photoId = "pOk" /\ Len(transfers[1].buf) = chunkSize + 1
    /\ Len(FramesOf("c1", 1)) = 4
    /\ transfers[2].photoId = "pEmpty" /\ transfers[2].buf = <<>>
    /\ Len(FramesOf("c1", 2)) = 2

\* the link of clientId is out of the map, destroyed (and with that no longer
\* connected), or its sends throw
LinkLost(clientId) ==
    \/ peers[clientId].made /\ ~peers[clientId].inMap
    \/ peers[clientId].destroyed
    \/ peers[clientId].broken

Ended(tr) == tr.pc \in {"done", "aborted", "failed"}

\* C26: once the link is removed, destroyed, not connected or throwing on
\* send, no further chunk of a running transfer is sent and no
\* photo-complete; nothing is sent again or retried, and the transfer does
\* not close the link itself.
C26_LostLinkEndsTransfer ==
    [][/\ \A c \in ClientIds : LinkLost(c) => wire'[c] = wire[c]
       /\ \A t \in 1..Len(transfers) :
            LET tr == transfers[t]
                after == transfers'[t]
                binaries == SelectSeq(SelectSeq(wire'[tr.clientId], LAMBDA f : f.xfer = t),
                                      LAMBDA f : f.type = "binary")
            IN /\ Ended(tr) => after = tr
               /\ after # tr =>
                     /\ peers' = peers
                     /\ peerTrace' = peerTrace
                     /\ LinkLost(tr.clientId) => Ended(after)
                     /\ (LinkLost(tr.clientId) /\ tr.pc = "pacing") => after.pc = "aborted"
               /\ \A i, j \in 1..Len(binaries) :
                     i < j => binaries[i].offset < binaries[j].offset
               /\ after.pc = "aborted" =>
                     \A i \in 1..Len(wire'[tr.clientId]) :
                         wire'[tr.clientId][i].xfer = t
                            => wire'[tr.clientId][i].type # "photo-complete"
    ]_vars

\* the channel failed after the first chunk of a photo: the transfer was
\* given up with the photo-start and that chunk sent, and the peer is still
\* in the map, not destroyed
C26_Witness ==
    /\ Len(transfers) >= 1
    /\ transfers[1].pc = "aborted"
    /\ transfers[1].offset = chunkSize
    /\ Len(FramesOf("c1", 1)) = 2
    /\ peers["c1"].broken /\ peers["c1"].inMap /\ ~peers["c1"].destroyed

\* C27: on one link photos go out one at a time: between the photo-start of
\* a photo and its photo-complete (or its last frame, when it is given up)
\* no photo-start, chunk or photo-complete of another photo is sent on that
\* link, also when request-photo messages arrive back to back.
C27_OnePhotoAtATime ==
    \A c \in ClientIds :
        \A i, j, k \in 1..Len(wire[c]) :
            (/\ i < j /\ j < k
             /\ wire[c][i].type = "photo-start"
             /\ wire[c][k].xfer = wire[c][i].xfer)
            => wire[c][j].xfer \in {wire[c][i].xfer, 0}

\* two requests for the three-byte photo came in back to back: the second
\* photo's start and first chunk went out between the two chunks of the first
C27_Witness ==
    /\ Len(transfers) = 2
    /\ transfers[1].photoId = "pOk" /\ transfers[2].photoId = "pOk"
    /\ \E i \in 1..Len(wire["c1"]) :
          /\ i + 3 <= Len(wire["c1"])
          /\ wire["c1"][i].type = "binary" /\ wire["c1"][i].xfer = 1
          /\ wire["c1"][i + 1].type = "photo-start" /\ wire["c1"][i + 1].xfer = 2
          /\ wire["c1"][i + 2].type = "binary" /\ wire["c1"][i + 2].xfer = 2
          /\ wire["c1"][i + 3].type = "binary" /\ wire["c1"][i + 3].xfer = 1

(***************************************************************************)
(* Claims about the rendition cache                                        *)
(***************************************************************************)
\* no rescan is under way: every rescan that began has completed
NoRescanRunning == rescanCall.pc = "idle" /\ \A k \in ScanIds : scans[k].pc = "idle"

\* the entries the two tiers hold
CacheEntries ==
    {compressionCache[k] : k \in {x \in CacheKeys : compressionCache[x].has}}
    \cup {cacheFiles[k] : k \in {x \in CacheKeys : cacheFiles[x].has}}

\* C28: every rescan, manual or periodic, empties the rendition cache: once
\* the rescan has completed, neither the memory map nor the cache directory
\* holds an entry that was made before the rescan began.
C28_RescanEmptiesCache ==
    NoRescanRunning => \A e \in CacheEntries : e.born >= rescans

\* C28, for POST /api/rescan alone: it leaves no entry that was made before
\* it began
C28_ManualRescanEmpties ==
    (NoRescanRunning /\ rescanCall.begun = rescans)
        => \A e \in CacheEntries : e.born >= rescans

\* C28, for POST /api/rescan and compressions in flight: it leaves no entry
\* whose bytes come from a call made before it began
C28_InFlightWritesCleared ==
    (NoRescanRunning /\ rescanCall.begun = rescans)
        => \A e \in CacheEntries : e.asked >= rescans

\* the periodic rescan has run to its end, and both tiers still hold the
\* rendition that was made before it began
C28_Witness ==
    /\ NoRescanRunning
    /\ rescans = 1 /\ rescanCall.begun = 0
    /\ \E k \in CacheKeys :
          /\ compressionCache[k].has /\ compressionCache[k].born = 0
          /\ cacheFiles[k].has /\ cacheFiles[k].born = 0
          /\ cacheFiles[k].buf = compressionCache[k].buf

\* C29: a new rendition is written to its cache file first and put into the
\* memory map only afterwards: when a key enters the memory map, its file
\* is there with the same, complete bytes.
C29_DiskBeforeMemory ==
    [][\A k \in CacheKeys :
          (~compressionCache[k].has /\ compressionCache'[k].has) =>
              /\ cacheFiles'[k].has
              /\ cacheFiles'[k].buf = compressionCache'[k].buf
    ]_vars

\* C29, for the callers: no key is in the memory map without its cache file
\* holding the same bytes
C29_EntryInBothTiers ==
    \A k \in CacheKeys :
        compressionCache[k].has =>
            /\ cacheFiles[k].has
            /\ cacheFiles[k].buf = compressionCache[k].buf

\* with no rescan so far, a second call has been answered from the memory map
\* while the first is still about to write the cache file
C29_Witness ==
    /\ rescans = 0 /\ rescanCall.begun = 0
    /\ Len(compressions) = 2
    /\ compressions[1].pc = "mkdir"
    /\ compressions[2].key = compressions[1].key
    /\ compressions[2].pc = "done" /\ compressions[2].hit = "memory"
    /\ ~cacheFiles[compressions[1].key].has

\* calls that have returned a buffer with no cache clear between their being
\* made and their return
Returned ==
    {i \in 1..Len(compressions) :
        /\ compressions[i].pc = "done"
        /\ compressions[i].epoch >= 0
        /\ compressions[i].epochEnd = compressions[i].epoch}

\* C30: with no cache clear in between, calls with the same photo id,
\* quality and maxDimension return the same bytes.
C30_SameKeySameBytes ==
    \A i, j \in Returned :
        (/\ compressions[i].key = compressions[j].key
         /\ compressions[i].epoch = compressions[j].epoch)
        => compressions[i].buf = compressions[j].buf

\* C30, the lookup: the memory map is asked first, then the cache file, and
\* only then is the rendition computed; a memory hit returns the stored
\* buffer, a disk hit puts the file's bytes into the memory map, and neither
\* computes.
C30_LookupOrder ==
    [][/\ Len(compressions') > Len(compressions) =>
            LET call == compressions'[Len(compressions')]
                k == call.key
            IN /\ call.hit = "memory" <=> compressionCache[k].has
               /\ call.hit = "disk" <=> (~compressionCache[k].has /\ cacheFiles[k].has)
               /\ call.hit = "memory" =>
                     call.pc = "done" /\ call.buf = compressionCache[k].buf
       /\ \A i \in 1..Len(compressions) :
            LET before == compressions[i]
                after == compressions'[i]
            IN /\ after.hit \in {"memory", "disk"} => ~after.computed
               /\ (before.pc = "readFile" /\ after.pc = "done") =>
                     /\ compressionCache'[before.key].has
                     /\ compressionCache'[before.key].buf = cacheFiles[before.key].buf
                     /\ after.buf = cacheFiles[before.key].buf
    ]_vars

\* C30, without any cache clear at all: calls with the same key return the
\* same bytes
C30_SameBytesWithoutClear ==
    rescanCall.begun = 0 =>
        \A i, j \in 1..Len(compressions) :
            (/\ compressions[i].pc = "done" /\ compressions[j].pc = "done"
             /\ compressions[i].key = compressions[j].key)
            => compressions[i].buf = compressions[j].buf

\* after a cache clear, two calls for one rendition were both answered from
\* the cache file: one with no bytes, the other with the whole rendition
C30_Witness ==
    \E i, j \in Returned :
        /\ compressions[i].key = compressions[j].key
        /\ compressions[i].epoch = 1 /\ compressions[j].epoch = 1
        /\ compressions[i].hit = "disk" /\ compressions[j].hit = "disk"
        /\ compressions[i].buf = <<>>
        /\ compressions[j].buf # <<>>

(***************************************************************************)
(* Claims about the order of a batch's events                              *)
(***************************************************************************)
BatchEventTypes ==
    {"photos:batch-started", "photo:data", "photo:complete", "photo:error", "ack"}

\* what a session was sent for its batches, in sending order
BatchEvents(s) == SelectSeq(sockets[s].log, LAMBDA e : e.type \in BatchEventTypes)

Terminals(evs) == SelectSeq(evs, LAMBDA e : e.type \in {"photo:complete", "photo:error"})

\* sessions that are connected and have made one request, a compressed batch
\* that was accepted
OneCompressedBatch ==
    {s \in Sockets :
        /\ sockets[s].status = "connected"
        /\ Cardinality(BatchesOf(s)) = 1
        /\ \A b \in BatchesOf(s) : batches[b].kind = "compressed" /\ batches[b].error = ""}

\* C31: for an accepted compressed batch the session is sent BatchStarted
\* before any event of a photo of the batch, then one terminal event
\* (PhotoComplete or PhotoError) per entry of photoIds, in the order of
\* photoIds, and the success acknowledgment only after the last entry's
\* terminal event.
C31_StartedTerminalsAck ==
    \A s \in OneCompressedBatch :
        \A b \in BatchesOf(s) :
            LET rec == batches[b]
                evs == BatchEvents(s)
                term == Terminals(evs)
                acks == {i \in 1..Len(evs) : evs[i].type = "ack"}
            IN /\ evs # <<>>
               /\ \A i \in 1..Len(evs) : evs[i].type = "photos:batch-started" <=> i = 1
               /\ Len(term) <= Len(rec.ids)
               /\ \A i \in 1..Len(term) : term[i].photoId = rec.ids[i]
               /\ Len(term) >= rec.pos - 1
               /\ \A i \in 1..Len(evs) :
                     evs[i].type = "photo:complete" =>
                        /\ i > 1
                        /\ evs[i - 1].type = "photo:data"
                        /\ evs[i - 1].photoId = evs[i].photoId
               /\ rec.done <=> acks # {}
               /\ acks # {} =>
                     /\ acks = {Len(evs)}
                     /\ evs[Len(evs)] = Ack("success")
                     /\ Len(term) = Len(rec.ids)

\* a connected session's batch of a failing and a good photo is done: it was
\* sent the start, an error for the first, data and completion for the
\* second, and the acknowledgment
C31_Witness ==
    \E s \in OneCompressedBatch :
        \E b \in BatchesOf(s) :
            /\ batches[b].done
            /\ batches[b].ids = <<"pBad", "pOk">>
            /\ Len(BatchEvents(s)) = 5
            /\ Terminals(BatchEvents(s))[1].type = "photo:error"
            /\ Terminals(BatchEvents(s))[2].type = "photo:complete"

\* the BatchProgress events a session was sent
ProgressEvents(s) == SelectSeq(sockets[s].log, LAMBDA e : e.type = "photos:batch-progress")

\* sessions that are connected and have made one request, for originals,
\* that was accepted
OneOriginalBatch ==
    {s \in Sockets :
        /\ sockets[s].status = "connected"
        /\ Cardinality(BatchesOf(s)) = 1
        /\ \A b \in BatchesOf(s) : batches[b].kind = "original" /\ batches[b].error = ""}

\* C32: a batch of originals with at least one found id ends with a
\* BatchProgress event: once the last photo has been processed, the session
\* has been sent a progress event with completed = total = the number of
\* found ids.
C32_EndsWithProgress ==
    \A s \in OneOriginalBatch :
        \A b \in BatchesOf(s) :
            (batches[b].done /\ batches[b].ids # <<>>) =>
                /\ ProgressEvents(s) # <<>>
                /\ LastOf(ProgressEvents(s)).a = Len(batches[b].ids)
                /\ LastOf(ProgressEvents(s)).b = Len(batches[b].ids)

\* C32, the counters: total is the number of found ids, completed increases
\* from event to event and never exceeds total
C32_ProgressCounts ==
    \A s \in OneOriginalBatch :
        \A b \in BatchesOf(s) :
            LET evs == ProgressEvents(s)
            IN /\ \A i \in 1..Len(evs) :
                     /\ evs[i].b = Len(batches[b].ids)
                     /\ evs[i].a >= 1 /\ evs[i].a <= evs[i].b
               /\ \A i, j \in 1..Len(evs) : i < j => evs[i].a < evs[j].a

\* a batch of originals for a good photo and one whose file is gone is done
\* and acknowledged, and the session was sent no progress event at all
C32_Witness ==
    \E s \in OneOriginalBatch :
        \E b \in BatchesOf(s) :
            /\ batches[b].done
            /\ batches[b].ids = <<"pOk", "pGone">>
            /\ batches[b].completedCount = 1
            /\ ProgressEvents(s) = <<>>
            /\ LastOf(sockets[s].log) = Ack("success")

(***************************************************************************)
(* Claims about heartbeats and about links under one clientId              *)
(***************************************************************************)
\* a step of the heartbeat machinery: a tick of either timer, or a ping or
\* pong that arrives
HeartbeatStep ==
    \/ SignalingTick
    \/ SignalingPong
    \/ \E c \in ClientIds :
          \/ HeartbeatTick(c)
          \/ PeerPinged(c)
          \/ \E high \in BOOLEAN : PeerPonged(c, high)

\* the link of the peer map stays what it was, but for its heartbeat timer
SameLink(c) ==
    /\ peers'[c].made = peers[c].made
    /\ peers'[c].inMap = peers[c].inMap
    /\ peers'[c].connected = peers[c].connected
    /\ peers'[c].destroyed = peers[c].destroyed
    /\ peers'[c].broken = peers[c].broken
    /\ peers'[c].closeDue = peers[c].closeDue

\* C33: no heartbeat activity forces a disconnection: a tick of the signaling
\* timer or of a peer's timer, a ping or a pong that arrives, with whatever
\* latency, and a pong that never comes, destroy no link, take no peer out of
\* the peer map and leave the signaling socket connected; a peer's tick that
\* finds the peer not connected stops that peer's timer and does nothing else.
C33_HeartbeatsNeverDisconnect ==
    /\ [][HeartbeatStep =>
            /\ \A c \in ClientIds :
                  /\ SameLink(c)
                  /\ TraceOf(NewTrace, "destroy", c) = {}
                  /\ TraceOf(NewTrace, "peer-disconnected", c) = {}
            /\ superseded' = superseded
            /\ signaling'.connected = signaling.connected
            /\ signaling'.gone = signaling.gone
            /\ signaling'.heartbeatInterval = signaling.heartbeatInterval]_vars
    /\ [][\A c \in ClientIds :
            (HeartbeatTick(c) /\ ~Usable(peers[c])) =>
                /\ peers' = [peers EXCEPT ![c].heartbeat = FALSE]
                /\ NewTrace = << Did("clearInterval", c) >>
                /\ wire' = wire
                /\ signaling' = signaling]_vars

\* the timer of a connected link lived on when the clientId joined again,
\* found the new link not connected yet at its tick and was stopped; the
\* link is still in the map, and a signaling pong is still missing
C33_Witness ==
    /\ peers["c1"].inMap
    /\ ~peers["c1"].connected
    /\ ~peers["c1"].destroyed
    /\ ~peers["c1"].heartbeat
    /\ peerTrace # <<>>
    /\ peerTrace[Len(peerTrace)] = Did("clearInterval", "c1")
    /\ signaling.connected
    /\ signaling.unanswered

\* the links of a clientId that are neither closed nor destroyed and are not
\* the one in the peer map
Unregistered(c) == {i \in 1..Len(superseded[c]) : ~superseded[c][i].closed}

\* C38: a link that has been created and not destroyed is the one the peer
\* map holds under its clientId: whatever client-joined, offer,
\* client-disconnected and close events there have been, no clientId has a
\* live link outside the map, so a second client-joined for a clientId that
\* has a link leaves no earlier link alive and unregistered.
C38_LiveLinkIsRegistered ==
    \A c \in ClientIds :
        /\ Unregistered(c) = {}
        /\ (peers[c].made /\ ~peers[c].destroyed) => peers[c].inMap

\* C38, the offer: an offer from a clientId that has a link in the map makes
\* no new link and leaves the one there is
C38_OfferKeepsLink ==
    [][\A c \in ClientIds :
          (OfferReceived(c) /\ peers[c].inMap) => UNCHANGED <<peers, superseded>>]_vars

\* the clientId joined twice: its first link is alive, connected and in no
\* map, its second link is the one in the map
C38_Witness ==
    /\ peers["c1"].inMap
    /\ ~peers["c1"].destroyed
    /\ Len(superseded["c1"]) = 1
    /\ superseded["c1"][1].connected
    /\ ~superseded["c1"][1].closed

\* an event of the i-th earlier link of a clientId
EarlierLinkEvent(c, i) ==
    \/ SupersededConnects(c, i)
    \/ SupersededCloses(c, i)
    \/ SupersededPinged(c, i)

\* C39: an event that a link raises affects that link only: the close,
\* connect or data event of a link that was superseded or has closed never
\* destroys the link registered later under the same clientId, never takes it
\* out of the peer map, never starts a heartbeat for it and never sends data
\* on it.
C39_EventsStayOnTheirLink ==
    [][\A c \in ClientIds :
          \A i \in 1..Len(superseded[c]) :
              EarlierLinkEvent(c, i) =>
                  /\ SameLink(c)
                  /\ peers'[c].heartbeat = peers[c].heartbeat
                  /\ wire'[c] = wire[c]]_vars

\* the first link of a clientId connected after the second had taken its
\* place: the heartbeat timer runs for the second link, which has not
\* connected and has been sent nothing
C39_Witness ==
    /\ peers["c1"].inMap
    /\ ~peers["c1"].connected
    /\ peers["c1"].heartbeat
    /\ Len(superseded["c1"]) = 1
    /\ superseded["c1"][1].connected
    /\ TraceOf(peerTrace, "peer-connected", "c1") # {}
    /\ wire["c1"] = <<>>

\* the interval timers of a clientId's heartbeat that a trace has set and not
\* cleared
LiveIntervals(tr, c) ==
    Cardinality(TraceOf(tr, "setInterval", c)) - Cardinality(TraceOf(tr, "clearInterval", c))

\* a step in which closePeerConnection(c) is called
ClosesPeer(c) ==
    \/ LinkCloses(c)
    \/ ClientDisconnected(c)
    \/ CloseEvent(c)
    \/ \E i \in 1..Len(superseded[c]) : SupersededCloses(c, i)

\* C40: in every reachable state there is at most one signaling heartbeat
\* timer and, for each clientId, at most one data-channel heartbeat timer,
\* however often the signaling socket reconnects and links connect; the
\* signaling timer exists only while the signaling socket is connected; and
\* when closePeerConnection(clientId) or destroy() returns, no heartbeat
\* timer of that peer is left.
C40_HeartbeatTimers ==
    /\ [](/\ signaling.intervals = (IF signaling.heartbeatInterval THEN 1 ELSE 0)
          /\ signaling.heartbeatInterval => signaling.connected
          /\ \A c \in ClientIds :
                LiveIntervals(peerTrace, c) = (IF peers[c].heartbeat THEN 1 ELSE 0))
    /\ [][\A c \in ClientIds :
            ClosesPeer(c) =>
                /\ ~peers'[c].heartbeat
                /\ LiveIntervals(peerTrace', c) = 0]_vars
    /\ [][destroy =>
            /\ signaling'.intervals = 0
            /\ \A c \in ClientIds :
                  /\ ~peers'[c].heartbeat
                  /\ LiveIntervals(peerTrace', c) = 0]_vars

\* the signaling socket has reconnected and its timer runs again, and the
\* clientId's second link has connected and has its timer, the first link's
\* timer having been cleared when the link was closed
C40_Witness ==
    /\ signaling.connected
    /\ signaling.heartbeatInterval
    /\ signaling.reconnected
    /\ signaling.unanswered
    /\ Len(superseded["c1"]) = 1
    /\ superseded["c1"][1].closed
    /\ peers["c1"].connected
    /\ peers["c1"].heartbeat
    /\ Cardinality(TraceOf(peerTrace, "setInterval", "c1")) = 2
    /\ Cardinality(TraceOf(peerTrace, "clearInterval", "c1")) = 1

(***************************************************************************)
(* Claims about the folder tree                                            *)
(***************************************************************************)
\* every node of a list of folder trees
RECURSIVE NodesOf(_)
NodesOf(folders) ==
    IF folders = <<>> THEN {}
    ELSE {Head(folders)} \cup NodesOf(Head(folders).subfolders) \cup NodesOf(Tail(folders))

\* the photos of a catalog that lie in the folder itself
DirectPhotos(photos, node) ==
    {i \in 1..Len(photos) :
        photos[i].rootPath = node.rootPath /\ photos[i].folderPath = node.folderPath}

IsFolderPrefix(p, q) == Len(p) <= Len(q) /\ SubSeq(q, 1, Len(p)) = p

\* C34: for any catalog, getFolderStructure returns a tree keyed by
\* (rootPath, folderPath): the roots are the folders with the empty path,
\* each subfolder lies one level below its node, and no key occurs twice;
\* every ancestor folder of every photo's folder is in the tree; each node's
\* totalPhotoCount is its own photoCount plus the totalPhotoCount of the
\* subfolders it kept; no node has totalPhotoCount 0; and the roots'
\* totalPhotoCount add up to the number of photos of the catalog.
C34_FolderTree ==
    folderStructure.built =>
        LET photos == folderStructure.of
            roots == folderStructure.folders
            nodes == NodesOf(roots)
        IN /\ \A i \in 1..Len(roots) : roots[i].folderPath = <<>>
           /\ \A i, j \in 1..Len(roots) : roots[i].rootPath = roots[j].rootPath => i = j
           /\ \A n \in nodes :
                 /\ \A i \in 1..Len(n.subfolders) :
                       /\ n.subfolders[i].rootPath = n.rootPath
                       /\ Len(n.subfolders[i].folderPath) = Len(n.folderPath) + 1
                       /\ IsFolderPrefix(n.folderPath, n.subfolders[i].folderPath)
                 /\ \A i, j \in 1..Len(n.subfolders) :
                       n.subfolders[i].folderPath = n.subfolders[j].folderPath => i = j
                 /\ n.photoCount = Cardinality(DirectPhotos(photos, n))
                 /\ n.totalPhotoCount = n.photoCount + SumTotals(n.subfolders)
                 /\ n.totalPhotoCount > 0
           /\ \A i \in 1..Len(photos) :
                 \A k \in 0..Len(photos[i].folderPath) :
                     \E n \in nodes :
                         /\ n.rootPath = photos[i].rootPath
                         /\ n.folderPath = SubSeq(photos[i].folderPath, 1, k)
           /\ SumTotals(roots) = Len(photos)
           /\ folderStructure.totalPhotos = Len(photos)

\* the tree of a catalog with a photo three folders deep, one in the root
\* of the same directory and one in another directory: the folders between
\* hold no photo of their own and are in the tree
C34_Witness ==
    /\ folderStructure.built
    /\ Len(folderStructure.of) = 3
    /\ Len(folderStructure.folders) = 2
    /\ \E n \in NodesOf(folderStructure.folders) :
          /\ n.folderPath = <<"a", "b">>
          /\ n.photoCount = 0
          /\ n.totalPhotoCount = 1
          /\ Len(n.subfolders) = 1
    /\ \E n \in NodesOf(folderStructure.folders) :
          /\ n.folderPath = <<>>
          /\ n.photoCount = 1
          /\ n.totalPhotoCount = 2

(***************************************************************************)
(* Claims about the revocation sweep, overlapping rescans and the queue    *)
(***************************************************************************)
\* session s has been sent auth:revoked or has been disconnected by the server
RevokedBySweep(s) ==
    \/ sockets[s].forced # ""
    \/ \E i \in 1..Len(sockets[s].log) : sockets[s].log[i].type = "auth:revoked"

\* C35: a live session whose token stays present, active and unexpired in
\* the token store is never sent auth:revoked and never disconnected by the
\* revocation sweep, whatever else changes in the token file and whenever
\* the sweep reads it. (A token that is valid in the store now has been so
\* since it was created: nothing un-revokes or restores a token.)
C35_ValidSessionNeverRevoked ==
    \A s \in Sockets :
        (sockets[s].data.authenticated /\ RevokedBySweep(s)) => StoreStatus(s) # "valid"

\* the sweep read device-tokens.json while it was being rewritten for a
\* change to another token, and closed the session of a token that the store
\* holds as valid
C35_Witness ==
    /\ jsonFile.torn
    /\ \E s \in Sockets :
          /\ Notified(s)
          /\ sockets[s].data.authenticated
          /\ StoreStatus(s) = "valid"

\* C36: rescans can overlap, and once every running rescan has finished the
\* catalog holds each scanned photo exactly once (no id twice) and is what a
\* single rescan of the same directories gives.
C36_OverlapEndsAsOneRescan ==
    NoScanRunning =>
        /\ Cardinality(IdSet(database)) = Len(database)
        /\ database \in KnownCatalogs

\* two rescans of a directory with two photos overlapped and have both
\* ended: the catalog lists four photos, each id twice
C36_Witness ==
    /\ NoScanRunning
    /\ rescans = 2
    /\ Len(database) = 4
    /\ Cardinality(IdSet(database)) = 2
    /\ previousPhotoCount = 4

\* the batch requests whose handler has not returned
InProgress == {b \in 1..Len(batches) : ~batches[b].done}

\* the jobs a batch handler has enqueued so far, in the order of the calls
JobsOfBatch(b) == {j \in JobIds : jobs[j].job.batch = b}

\* j is the job that batch b enqueued next after i
NextInBatch(i, j) ==
    /\ i < j
    /\ jobs[i].job.batch = jobs[j].job.batch
    /\ \A m \in JobIds : (i < m /\ m < j) => jobs[m].job.batch # jobs[i].job.batch

\* C37: a batch handler enqueues its next job only after the previous one
\* has settled: each batch request in progress has at most one job queued or
\* running, and the queue is never longer than the number of requests in
\* progress; the photos of a batch are processed in the order of photoIds;
\* and the jobs of batches that run side by side take turns: a job that
\* another batch enqueued between two jobs of one batch runs between them.
C37_OneJobPerBatchInTurn ==
    /\ \A b \in 1..Len(batches) :
          Cardinality({j \in JobsOfBatch(b) : ~Settled(j)})
              <= (IF b \in InProgress THEN 1 ELSE 0)
    /\ Len(queue) + Cardinality(running) <= Cardinality(InProgress)
    /\ \A b \in 1..Len(batches) :
          \A j \in JobsOfBatch(b) :
              LET place == Cardinality({m \in JobsOfBatch(b) : m <= j})
              IN /\ place <= Len(batches[b].ids)
                 /\ jobs[j].job.photoId = batches[b].ids[place]
    /\ \A i, j \in JobIds :
          NextInBatch(i, j) =>
              /\ Settled(i)
              /\ jobs[j].starts > 0 => jobs[i].settleOrd < jobs[j].startOrd
              /\ \A k \in JobIds :
                    (i < k /\ k < j /\ jobs[j].starts > 0) =>
                        /\ jobs[k].starts > 0
                        /\ jobs[i].startOrd < jobs[k].startOrd
                        /\ jobs[k].startOrd < jobs[j].startOrd

\* two sessions' batches of two photos ran side by side: the four jobs were
\* started in turn, first batch, second batch, first batch, second batch
C37_Witness ==
    /\ Len(jobs) = 4
    /\ jobs[1].job.batch = jobs[3].job.batch
    /\ jobs[2].job.batch = jobs[4].job.batch
    /\ jobs[1].job.batch # jobs[2].job.batch
    /\ jobs[1].job.socket # jobs[2].job.socket
    /\ \A j \in 1..4 : jobs[j].starts = 1 /\ jobs[j].startOrd = j
    /\ \A j \in 1..4 : Settled(j)

====
